---- MODULE Spec2Model ----
(***************************************************************************)
(* A model of the usage collector (src/collector.py) and of the readers    *)
(* in src/app.py that share its files.                                     *)
(*                                                                         *)
(* Time.  A naive local datetime is an integer number of seconds; second 0 *)
(* is a local midnight, so that now.replace(hour=0, minute=0, second=0,    *)
(* microsecond=0) is now - (now % DAY_SECS).  An aware instant is UTC      *)
(* seconds; the local zone is the fixed offset TZ_OFFSET.                  *)
(*                                                                         *)
(* Money.  The float costs of the code are kept as exact integers, in      *)
(* sixteenths of a millionth of a dollar: the per-million weights 15, 75,  *)
(* 18.75, 1.875 and 0.1875 are 240, 1200, 300, 30 and 3 sixteenths, and    *)
(* (inp*15 + out*75 + cc*18.75 + cr*1.875)/1e6 dollars is                  *)
(* inp*240 + out*1200 + cc*300 + cr*30 units.                              *)
(*                                                                         *)
(* Local variables.  CHOOSE r \in { F(x) : x \in {e} } : TRUE is F(e) with *)
(* e evaluated once and bound to x, as an assignment x = e of the code is; *)
(* it is written so where x is read many times.                            *)
(***************************************************************************)
EXTENDS Integers, Sequences, FiniteSets, TLC

VARIABLES
    \* inputs and results of the aggregation functions
    E,            \* the record list given to compute_local_summary
    now,          \* what datetime.now() returns at collector.py:110
    now2,         \* what datetime.now() returns at collector.py:97
    cfg,          \* the content of ~/.claude.json
    out,          \* what the last run of compute_local_summary returned
    \* input and result of the transcript parser
    projects,     \* ~/.claude/projects: whether it is a directory, its files
    parsed,       \* what the last run of parse_all_transcripts returned
    \* the collector process and its files
    clock,        \* the wall clock, as datetime.now() reads it
    apiKey,       \* whether ADMIN_API_KEY is set
    summaryFile,  \* latest_summary.json
    historyLog,   \* usage_history.jsonl, a sequence of lines
    mode,         \* "once" or "daemon" (--daemon)
    pc,           \* "start" (about to call collect), "sleep", "exit"
    passes,       \* how many times collect() was called
    errorsLogged, \* how many "ERROR: ..." lines main has logged
    lastPass,     \* how the last call of collect() went
    stdout,       \* "ok", or "broken": a write to it raises
    \* the dashboard (app.py)
    bucket,       \* the dict given to effective_cost
    extra,        \* a number of tokens added to one field of bucket
    priced,       \* what effective_cost and the collector's cost formula gave
    stats,        \* what the last run of compute_usage_stats returned
    disk,         \* latest_summary.json as the dashboard process meets it
    writer,       \* the collector writing latest_summary.json
    reader,       \* read_collector_summary on its way
    caps,         \* usage_caps in session_data.json
    view,         \* what the last run of the script displayed
    \* the dashboard's controls and session plan
    daemons,      \* how many collector daemon processes are running
    pages,        \* the script runs of the browser sessions, one per page
    dataFile,     \* session_data.json
    plan          \* what the last run of compute_all_sessions returned

aggVars == <<E, now, now2, cfg, out>>
parseVars == <<projects, parsed>>
collectVars ==
    <<clock, apiKey, summaryFile, historyLog, mode, pc, passes, errorsLogged, lastPass,
      stdout>>
appVars == <<bucket, extra, priced, stats, disk, writer, reader, caps, view>>
uiVars == <<daemons, pages, dataFile, plan>>
vars == <<aggVars, parseVars, collectVars, appVars, uiVars>>

-----------------------------------------------------------------------------
(* Durations, in seconds. *)

HOUR_SECS == 3600
DAY_SECS == 86400
SESSION_SECS == 5 * HOUR_SECS          \* timedelta(hours=5)
WEEK_SECS == 7 * DAY_SECS              \* timedelta(days=7)

\* The local zone's offset from UTC, which astimezone() and
\* datetime.fromtimestamp() apply.
TZ_OFFSET == 2 * HOUR_SECS

\* parse_ts takes a number above 1e12 for milliseconds.  The model's epoch
\* is a few days before now instead of 1970, so the numbers are about 1e6
\* times smaller and the threshold is scaled with them: every model instant
\* in seconds is below it, every model instant after second 1000 in
\* milliseconds is above it.
EPOCH_MS_THRESHOLD == 1000000

\* datetime.fromtimestamp: a timestamp whose year is past 9999 raises
\* ValueError, one beyond the platform's time_t raises OverflowError.  Both
\* limits are scaled as the threshold above is.
YEAR_MAX_SECS == 1500000
TIME_T_MAX == 2000000

-----------------------------------------------------------------------------
(* Optional datetimes: None, or a naive local datetime.                    *)

None == [some |-> FALSE, t |-> 0]
Some(t) == [some |-> TRUE, t |-> t]

(* A raw timestamp, as json.loads gives it:                                *)
(*   "null"   JSON null or an absent key                                   *)
(*   "num"    a JSON number v                                              *)
(*   "iso"    an ISO-8601 string of wall time v, with zone tag             *)
(*            zone = "Z" (UTC), "off" (offset off seconds) or "naive"      *)
(*   "bad"    any other string or value                                    *)
RawNull == [kind |-> "null", v |-> 0, zone |-> "", off |-> 0]
RawNum(v) == [kind |-> "num", v |-> v, zone |-> "", off |-> 0]
RawIsoZ(v) == [kind |-> "iso", v |-> v, zone |-> "Z", off |-> 0]
RawIsoOff(v, off) == [kind |-> "iso", v |-> v, zone |-> "off", off |-> off]
RawIsoNaive(v) == [kind |-> "iso", v |-> v, zone |-> "naive", off |-> 0]
RawBad == [kind |-> "bad", v |-> 0, zone |-> "", off |-> 0]
\* a falsy JSON value ("" or 0), which `a or b` passes over
RawEmpty == [kind |-> "empty", v |-> 0, zone |-> "", off |-> 0]

Falsy(raw) == raw.kind \in {"null", "empty"}

\* datetime.fromisoformat(str(ts).replace("Z", "+00:00")) followed by
\* .astimezone().replace(tzinfo=None): an aware value is moved to the local
\* zone, a naive one is taken as local already.
iso_to_local(raw) ==
    IF raw.zone = "naive" THEN raw.v
    ELSE (raw.v - raw.off) + TZ_OFFSET

\* parse_ts: [st |-> "ok", dt |-> Some(t) or None], or st = "raise" when the
\* exception is none of (ValueError, OSError).
parse_ts(ts) ==
    CASE ts.kind = "null" -> [st |-> "ok", dt |-> None]
      [] ts.kind = "num" ->
            LET secs == IF ts.v > EPOCH_MS_THRESHOLD THEN ts.v \div 1000 ELSE ts.v
            IN  IF secs > TIME_T_MAX
                THEN [st |-> "raise", dt |-> None]       \* OverflowError
                ELSE IF secs > YEAR_MAX_SECS
                THEN [st |-> "ok", dt |-> None]          \* ValueError caught
                ELSE [st |-> "ok", dt |-> Some(secs + TZ_OFFSET)]
      [] ts.kind = "iso" -> [st |-> "ok", dt |-> Some(iso_to_local(ts))]
      [] OTHER -> [st |-> "ok", dt |-> None]             \* ValueError caught

-----------------------------------------------------------------------------
(* ~/.claude.json.  file is "absent", "unreadable" (open fails), "invalid" *)
(* (not JSON), "nonobject" (a JSON value that is no object) or "object";   *)
(* an object carries its two origin keys as raw values and the lastCost of *)
(* each of its projects.                                                   *)

Config(file, first, token, costs) ==
    [file |-> file, firstStartTime |-> first, claudeCodeFirstTokenDate |-> token,
     lastCosts |-> costs]

\* cfg.get("firstStartTime") or cfg.get("claudeCodeFirstTokenDate")
config_origin(c) ==
    IF Falsy(c.firstStartTime) THEN c.claudeCodeFirstTokenDate ELSE c.firstStartTime

\* (a slip: the loop stops as soon as reset reaches now)
RECURSIVE advance_reset_lt(_, _)
advance_reset_lt(reset, n) ==
    IF reset < n THEN advance_reset_lt(reset + WEEK_SECS, n) ELSE reset

\* The while loop of get_weekly_reset.
RECURSIVE advance_reset(_, _)
advance_reset(reset, n) ==
    IF reset <= n THEN advance_reset(reset + WEEK_SECS, n) ELSE reset

\* The try block of get_weekly_reset with the exception it ends in, if any.
weekly_reset_try(c, n) ==
    CASE c.file = "unreadable" -> [exc |-> "PermissionError", dt |-> None]
      [] c.file = "invalid" -> [exc |-> "JSONDecodeError", dt |-> None]
      [] c.file = "nonobject" -> [exc |-> "AttributeError", dt |-> None]
      [] OTHER ->
            LET raw == config_origin(c)
            IN  IF Falsy(raw) THEN [exc |-> "", dt |-> None]
                ELSE IF raw.kind # "iso" THEN [exc |-> "ValueError", dt |-> None]
                ELSE [exc |-> "", dt |-> Some(advance_reset(iso_to_local(raw), n))]

\* get_weekly_reset, n being its own datetime.now() (line 97).  `except
\* Exception` turns every exception of the try block into None.
get_weekly_reset(c, n) ==
    IF c.file = "absent" THEN [st |-> "ok", exc |-> "", dt |-> None]
    ELSE LET r == weekly_reset_try(c, n)
         IN  IF r.exc # "" THEN [st |-> "ok", exc |-> "", dt |-> None]
             ELSE [st |-> "ok", exc |-> "", dt |-> r.dt]

\* The sum of lastCost over cfg["projects"] (lines 184-187).
RECURSIVE sum_costs(_)
sum_costs(costs) ==
    IF costs = <<>> THEN 0 ELSE Head(costs) + sum_costs(Tail(costs))

\* get_config_cost: 0.0 when the file is absent or reading it raises
get_config_cost(c) ==
    IF c.file = "object" THEN sum_costs(c.lastCosts) ELSE 0

-----------------------------------------------------------------------------
(* compute_local_summary *)

Rec(ts, inp, outp, cc, cr) ==
    [ts |-> ts, input |-> inp, output |-> outp, cache_create |-> cc, cache_read |-> cr]

ZeroBucket ==
    [input_tokens |-> 0, output_tokens |-> 0, cache_creation_tokens |-> 0,
     cache_read_tokens |-> 0, cost |-> 0]

\* line 131, in sixteenths of a millionth of a dollar
record_cost(r) ==
    r.input * 240 + r.output * 1200 + r.cache_create * 300 + r.cache_read * 30

\* b["input_tokens"] += inp ... b["cost"] += cost
add_to_bucket(b, r) ==
    [input_tokens |-> b.input_tokens + r.input,
     output_tokens |-> b.output_tokens + r.output,
     cache_creation_tokens |-> b.cache_creation_tokens + r.cache_create,
     cache_read_tokens |-> b.cache_read_tokens + r.cache_read,
     cost |-> b.cost + record_cost(r)]

\* (a slip: now truncated to the hour, not to the day)
start_of_hour(n) == n - (n % HOUR_SECS)

\* now.replace(hour=0, minute=0, second=0, microsecond=0)
start_of_day(n) == n - (n % DAY_SECS)

\* (a slip: a record exactly at the window start is left out)
in_window_strict(dt, start) == dt > start

\* dt >= five_h_ago, dt >= day_start, dt >= week_start
in_window(dt, start) == dt >= start

\* (a slip: the first session record stays the oldest)
is_older_first(dt, oldest) == ~oldest.some

\* session_oldest is None or dt < session_oldest
is_older(dt, oldest) == ~oldest.some \/ dt < oldest.t

\* session_newest is None or dt > session_newest
is_newer(dt, newest) == ~newest.some \/ dt > newest.t

EmptyAcc ==
    [raised |-> FALSE, session |-> ZeroBucket, daily |-> ZeroBucket,
     weekly |-> ZeroBucket, session_oldest |-> None, session_newest |-> None]

\* One iteration of `for r in records` (lines 124-158).
summary_step(acc, r, n) ==
    LET p == parse_ts(r.ts)
        five_h_ago == n - SESSION_SECS
        day_start == start_of_day(n)
        week_start == n - WEEK_SECS
    IN  IF acc.raised THEN acc
        ELSE IF p.st = "raise" THEN [acc EXCEPT !.raised = TRUE]
        ELSE IF ~p.dt.some THEN acc
        ELSE LET dt == p.dt.t
                 inS == in_window(dt, five_h_ago)
             IN  [raised |-> FALSE,
                  session |-> IF inS THEN add_to_bucket(acc.session, r) ELSE acc.session,
                  daily |-> IF in_window(dt, day_start) THEN add_to_bucket(acc.daily, r) ELSE acc.daily,
                  weekly |-> IF in_window(dt, week_start) THEN add_to_bucket(acc.weekly, r) ELSE acc.weekly,
                  session_oldest |->
                      IF inS /\ is_older(dt, acc.session_oldest)
                      THEN Some(dt) ELSE acc.session_oldest,
                  session_newest |->
                      IF inS /\ is_newer(dt, acc.session_newest)
                      THEN Some(dt) ELSE acc.session_newest]

RECURSIVE summary_loop(_, _, _)
summary_loop(acc, records, n) ==
    IF records = <<>> THEN acc
    ELSE CHOOSE r \in { summary_loop(a, Tail(records), n) :
                          a \in {summary_step(acc, Head(records), n)} } : TRUE

\* session_oldest + timedelta(hours=5), or None (lines 161-168)
session_reset(oldest) ==
    IF oldest.some THEN Some(oldest.t + SESSION_SECS) ELSE None

\* What compute_local_summary returns (lines 160-174) from the loop's result
\* and the weekly reset; st = "raise" when an exception leaves the function:
\* exc, raised in `at`.
summary_result(acc, wr) ==
    IF acc.raised \/ wr.st = "raise"
    THEN [st |-> "raise",
          exc |-> IF acc.raised THEN "OverflowError" ELSE wr.exc,
          at |-> IF acc.raised THEN "parse_ts" ELSE "get_weekly_reset",
          session |-> ZeroBucket, daily |-> ZeroBucket,
          weekly |-> ZeroBucket, session_resets_at |-> None,
          session_oldest |-> None, session_newest |-> None,
          weekly_resets_at |-> None]
    ELSE [st |-> "ok", exc |-> "", at |-> "",
          session |-> acc.session, daily |-> acc.daily,
          weekly |-> acc.weekly,
          session_resets_at |-> session_reset(acc.session_oldest),
          session_oldest |-> acc.session_oldest,
          session_newest |-> acc.session_newest,
          weekly_resets_at |-> wr.dt]

\* (a slip: the windows are taken from the later clock reading)
compute_local_summary_late(records, n, n2, c) ==
    CHOOSE r \in { summary_result(acc, wr) :
                     acc \in {summary_loop(EmptyAcc, records, n2)},
                     wr \in {get_weekly_reset(c, n2)} } : TRUE

\* compute_local_summary(records): n is datetime.now() of line 110, n2 the
\* datetime.now() that get_weekly_reset takes at line 97, c the config file.
compute_local_summary(records, n, n2, c) ==
    CHOOSE r \in { summary_result(acc, wr) :
                     acc \in {summary_loop(EmptyAcc, records, n)},
                     wr \in {get_weekly_reset(c, n2)} } : TRUE

-----------------------------------------------------------------------------
(* parse_all_transcripts                                                   *)
(*                                                                         *)
(* A line is what json.loads(line.strip()) makes of it:                    *)
(*   json     "invalid" (no JSON: text, a blank line), "nonobject" (a JSON *)
(*            number, string, list, true, false or null) or "object"       *)
(*   message  for an object: "absent", "nondict", "nousage" (a dict        *)
(*            without the key usage) or "usage" (a dict with it)           *)
(*   usage    for message = "usage": "dict" or "nondict" (null, a number,  *)
(*            a string, a list)                                            *)
(* and the raw values of the keys the parser reads.                        *)

Line(json, message, usage, ts, created, inp, outp, cc, cr) ==
    [json |-> json, message |-> message, usage |-> usage,
     timestamp |-> ts, createdAt |-> created,
     input_tokens |-> inp, output_tokens |-> outp,
     cache_creation_input_tokens |-> cc, cache_read_input_tokens |-> cr]

NoRec == Rec(RawNull, 0, 0, 0, 0)

\* The body of `for line in f` (lines 48-64): res is "record" (appended),
\* "skip" (continue, or an exception the inner except catches) or "raise"
\* (an exception the inner except does not catch).
parse_line(l) ==
    CASE l.json = "invalid" ->
            [res |-> "skip", exc |-> "JSONDecodeError", rec |-> NoRec]
      [] l.json = "nonobject" ->
            [res |-> "raise", exc |-> "AttributeError", rec |-> NoRec]   \* obj.get
      [] l.message # "usage" ->
            [res |-> "skip", exc |-> "", rec |-> NoRec]
      [] l.usage # "dict" ->
            [res |-> "raise", exc |-> "AttributeError", rec |-> NoRec]   \* u.get
      [] OTHER ->
            [res |-> "record", exc |-> "",
             rec |-> Rec(IF Falsy(l.timestamp) THEN l.createdAt ELSE l.timestamp,
                         l.input_tokens, l.output_tokens,
                         l.cache_creation_input_tokens, l.cache_read_input_tokens)]

(* A file: open is "ok" or "denied" (open raises OSError); fail tells how  *)
(* iterating over it ends: "none", "ioerror" (OSError) or "decode"         *)
(* (UnicodeDecodeError), after failAt lines have been handed out.          *)
File(open, lines, fail, failAt) ==
    [open |-> open, lines |-> lines, fail |-> fail, failAt |-> failAt]

\* `for line in f` over the lines the iteration hands out, i being the next.
RECURSIVE read_lines(_, _, _)
read_lines(acc, f, i) ==
    LET last == IF f.fail = "none" THEN Len(f.lines) ELSE f.failAt
    IN  IF i > last
        THEN IF f.fail = "decode" THEN [st |-> "raise", exc |-> "UnicodeDecodeError", records |-> <<>>]
             ELSE [st |-> "ok", exc |-> "", records |-> acc]   \* end of file, or OSError caught
        ELSE LET p == parse_line(f.lines[i])
             IN  IF p.res = "raise" THEN [st |-> "raise", exc |-> p.exc, records |-> <<>>]
                 ELSE read_lines(IF p.res = "record" THEN Append(acc, p.rec) ELSE acc, f, i + 1)

\* One iteration of `for path in glob.glob(...)` (lines 45-66).
parse_file(acc, f) ==
    IF f.open = "denied" THEN [st |-> "ok", exc |-> "", records |-> acc]
    ELSE read_lines(acc, f, 1)

RECURSIVE parse_files(_, _)
parse_files(acc, files) ==
    IF files = <<>> THEN [st |-> "ok", exc |-> "", records |-> acc]
    ELSE CHOOSE res \in { IF r.st = "raise" THEN r
                          ELSE parse_files(r.records, Tail(files)) :
                            r \in {parse_file(acc, Head(files))} } : TRUE

\* parse_all_transcripts(), over the directory d
parse_all_transcripts(d) ==
    IF ~d.isdir THEN [st |-> "ok", exc |-> "", records |-> <<>>]
    ELSE parse_files(<<>>, d.files)

-----------------------------------------------------------------------------
(* The Admin API.  What one request meets is a response of kind            *)
(*   "neterror"   urlopen raises URLError                                  *)
(*   "status"     a non-success status: urlopen raises HTTPError           *)
(*   "notjson"    a body that is no JSON: json.loads raises                *)
(*   "nonobject"  a JSON body that is no object                            *)
(*   "object"     a JSON object, with or without the key buckets, whose    *)
(*                buckets hold the results                                 *)

ApiResult(inp, outp, cc, cr, cost) ==
    [input_tokens |-> inp, output_tokens |-> outp,
     cache_creation_input_tokens |-> cc, cache_read_input_tokens |-> cr,
     cost |-> cost]

Response(kind, hasBuckets, results) ==
    [kind |-> kind, hasBuckets |-> hasBuckets, results |-> results]

\* totals[...] += result.get(..., 0) (lines 209-213)
add_result(totals, r) ==
    [input_tokens |-> totals.input_tokens + r.input_tokens,
     output_tokens |-> totals.output_tokens + r.output_tokens,
     cache_creation_tokens |->
         totals.cache_creation_tokens + r.cache_creation_input_tokens,
     cache_read_tokens |-> totals.cache_read_tokens + r.cache_read_input_tokens,
     cost |-> totals.cost + r.cost]

\* The two loops of calc_api_totals over the results of all buckets.
RECURSIVE sum_results(_, _)
sum_results(totals, results) ==
    IF results = <<>> THEN totals
    ELSE CHOOSE r \in { sum_results(t, Tail(results)) :
                          t \in {add_result(totals, Head(results))} } : TRUE

\* calc_api_totals(fetch_admin_api(...)) for a request that meets resp
api_totals(resp) ==
    CASE resp.kind = "neterror" -> [st |-> "raise", exc |-> "URLError", totals |-> ZeroBucket]
      [] resp.kind = "status" -> [st |-> "raise", exc |-> "HTTPError", totals |-> ZeroBucket]
      [] resp.kind = "notjson" ->
            [st |-> "raise", exc |-> "JSONDecodeError", totals |-> ZeroBucket]
      [] resp.kind = "nonobject" ->
            [st |-> "raise", exc |-> "AttributeError", totals |-> ZeroBucket]   \* data.get
      [] OTHER ->
            [st |-> "ok", exc |-> "",
             totals |-> IF resp.hasBuckets THEN sum_results(ZeroBucket, resp.results)
                        ELSE ZeroBucket]                  \* data.get("buckets", [])

\* (a slip: a request that fails counts as one without usage)
collect_from_admin_api_partial(resps) ==
    [st |-> "ok", exc |-> "", session |-> api_totals(resps.session).totals,
     daily |-> api_totals(resps.daily).totals,
     weekly |-> api_totals(resps.weekly).totals]

\* collect_from_admin_api(): the session, daily and weekly requests in this
\* order; the first exception leaves the function.
collect_from_admin_api(resps) ==
    LET s == api_totals(resps.session)
        d == api_totals(resps.daily)
        w == api_totals(resps.weekly)
        first == IF s.st = "raise" THEN s ELSE IF d.st = "raise" THEN d ELSE w
    IN  IF first.st = "raise"
        THEN [st |-> "raise", exc |-> first.exc, session |-> ZeroBucket,
              daily |-> ZeroBucket, weekly |-> ZeroBucket]
        ELSE [st |-> "ok", exc |-> "", session |-> s.totals, daily |-> d.totals,
              weekly |-> w.totals]

-----------------------------------------------------------------------------
(* collect *)

\* datetime.isoformat() of an optional datetime, as json.dump writes it: an
\* ISO string without zone, or null.
isoformat(dt) == IF dt.some THEN RawIsoNaive(dt.t) ELSE RawNull

Summary(ts, source, b, resetS, oldest, newest, resetW, cost) ==
    [timestamp |-> ts, source |-> source, session |-> b.session, daily |-> b.daily,
     weekly |-> b.weekly, session_resets_at |-> resetS, session_oldest |-> oldest,
     session_newest |-> newest, weekly_resets_at |-> resetW, config_cost |-> cost]

NoSummary ==
    Summary(RawNull, "", [session |-> ZeroBucket, daily |-> ZeroBucket, weekly |-> ZeroBucket],
            RawNull, RawNull, RawNull, RawNull, 0)

\* The local path of collect() (lines 254-259): parse_all_transcripts, then
\* compute_local_summary over its records.
local_summary(dir, c, n, n2) ==
    CHOOSE r \in { IF p.st = "raise"
                   THEN [st |-> "raise", exc |-> p.exc, at |-> "parse_all_transcripts",
                         session |-> ZeroBucket, daily |-> ZeroBucket,
                         weekly |-> ZeroBucket, session_resets_at |-> None,
                         session_oldest |-> None, session_newest |-> None,
                         weekly_resets_at |-> None]
                   ELSE compute_local_summary(p.records, n, n2, c) :
                     p \in {parse_all_transcripts(dir)} } : TRUE

\* (a slip: the reset times of the local logs go into every snapshot)
collect_result_with_resets(key, api, loc, c, ts) ==
    IF key /\ api.st = "ok"
    THEN [res |-> "saved", exc |-> "", at |-> "", remote |-> "ok",
          summary |-> Summary(isoformat(Some(ts)), "admin_api", api,
                              isoformat(loc.session_resets_at),
                              isoformat(loc.session_oldest),
                              isoformat(loc.session_newest),
                              isoformat(loc.weekly_resets_at),
                              get_config_cost(c))]
    ELSE IF loc.st = "raise"
    THEN [res |-> "raised", exc |-> loc.exc, at |-> loc.at,
          remote |-> IF key THEN "failed" ELSE "off", summary |-> NoSummary]
    ELSE [res |-> "saved", exc |-> "", at |-> "",
          remote |-> IF key THEN "failed" ELSE "off",
          summary |-> Summary(isoformat(Some(ts)), "local", loc,
                              isoformat(loc.session_resets_at),
                              isoformat(loc.session_oldest),
                              isoformat(loc.session_newest),
                              isoformat(loc.weekly_resets_at),
                              get_config_cost(c))]

\* What collect() makes of the Admin API's result api and of the local
\* path's result loc (lines 243-272).  res is "saved" or "raised"; remote
\* tells whether the Admin API was "off", "ok" or "failed".
collect_result(key, api, loc, c, ts) ==
    IF key /\ api.st = "ok"
    THEN [res |-> "saved", exc |-> "", at |-> "", remote |-> "ok",
          summary |-> Summary(isoformat(Some(ts)), "admin_api", api,
                              RawNull, RawNull, RawNull, RawNull, get_config_cost(c))]
    ELSE IF loc.st = "raise"
    THEN [res |-> "raised", exc |-> loc.exc, at |-> loc.at,
          remote |-> IF key THEN "failed" ELSE "off", summary |-> NoSummary]
    ELSE [res |-> "saved", exc |-> "", at |-> "",
          remote |-> IF key THEN "failed" ELSE "off",
          summary |-> Summary(isoformat(Some(ts)), "local", loc,
                              isoformat(loc.session_resets_at),
                              isoformat(loc.session_oldest),
                              isoformat(loc.session_newest),
                              isoformat(loc.weekly_resets_at),
                              get_config_cost(c))]

\* collect() up to the summary dict (lines 239-272).  key: ADMIN_API_KEY is
\* set; resps: what the three requests meet; dir, c: the logs and the config
\* file; n, n2, ts: the clock at lines 110, 97 and 262.
collect_summary(key, resps, dir, c, n, n2, ts) ==
    CHOOSE r \in { collect_result(key, api, loc, c, ts) :
                     api \in {collect_from_admin_api(resps)},
                     loc \in {local_summary(dir, c, n, n2)} } : TRUE

-----------------------------------------------------------------------------
(* The aggregation functions on bounded inputs.                            *)

MaxRecords == 2      \* the longest record list
MaxDrift == 1        \* seconds the clock may advance between lines 110 and 97

\* 03:00 and 10:00 of the ninth day: before and after the hour at which the
\* session window starts on the same calendar day.
NowValues == {8 * DAY_SECS + 3 * HOUR_SECS, 8 * DAY_SECS + 10 * HOUR_SECS}

\* Records around every window start of n, in every timestamp encoding, and
\* one a minute after n.
RecordValues(n) ==
    { Rec(RawNum((n - SESSION_SECS - 1) - TZ_OFFSET), 1, 2, 4, 8),
      Rec(RawNum(((n - SESSION_SECS) - TZ_OFFSET) * 1000), 1, 2, 4, 8),
      Rec(RawIsoNaive(start_of_day(n) - 1), 1, 2, 4, 8),
      Rec(RawIsoZ(start_of_day(n) - TZ_OFFSET), 1, 2, 4, 8),
      Rec(RawIsoOff((n - WEEK_SECS - 1) - TZ_OFFSET + HOUR_SECS, HOUR_SECS), 1, 2, 4, 8),
      Rec(RawNum((n - WEEK_SECS) - TZ_OFFSET), 1, 2, 4, 8),
      Rec(RawIsoNaive(n - 60), 3, 0, 5, 0),
      Rec(RawIsoNaive(n + 60), 1, 2, 4, 8),
      Rec(RawNull, 1, 2, 4, 8),
      Rec(RawBad, 1, 2, 4, 8),
      Rec(RawNum((TIME_T_MAX + 1) * 1000), 1, 2, 4, 8) }

\* Config files: no usable origin in each way, and origins on and around the
\* 7-day cycle boundaries of n, in the past and in the future.
ConfigValues(n) ==
    { Config("absent", RawNull, RawNull, <<>>),
      Config("unreadable", RawNull, RawNull, <<>>),
      Config("invalid", RawNull, RawNull, <<>>),
      Config("nonobject", RawNull, RawNull, <<>>),
      Config("object", RawNull, RawEmpty, <<>>),
      Config("object", RawBad, RawIsoNaive(n - DAY_SECS), <<>>),
      Config("object", RawEmpty, RawIsoZ((n - 3 * DAY_SECS) - TZ_OFFSET), <<>>),
      Config("object", RawIsoNaive(n - WEEK_SECS), RawNull, <<>>),
      Config("object", RawIsoNaive(n + 1 - WEEK_SECS), RawNull, <<>>),
      Config("object", RawIsoNaive(n), RawNull, <<>>),
      Config("object", RawIsoOff(n + WEEK_SECS - TZ_OFFSET + HOUR_SECS, HOUR_SECS), RawNull, <<>>),
      Config("object", RawIsoNaive(n + WEEK_SECS + 1), RawNull, <<>>) }

SeqsUpTo(S, k) == UNION { [1..m -> S] : m \in 0..k }

NotRun == [st |-> "notrun"]

NoProjects == [isdir |-> FALSE, files |-> <<>>]

NoPass ==
    [res |-> "none", exc |-> "", at |-> "", remote |-> "off", failure |-> "",
     defaulted |-> FALSE,
     resps |-> [session |-> Response("object", FALSE, <<>>),
                daily |-> Response("object", FALSE, <<>>),
                weekly |-> Response("object", FALSE, <<>>)]]

\* the dashboard not started, session_data.json without usage_caps
CostIdle == bucket = ZeroBucket /\ extra = 0 /\ priced = NotRun

StatsIdle == stats = NotRun

DashIdle ==
    /\ disk = [exists |-> FALSE, bytes |-> <<>>]
    /\ writer = [pc |-> "idle"]
    /\ reader = [pc |-> "idle"]
    /\ caps = [has |-> FALSE, session |-> 0, weekly |-> 0]
    /\ view = NotRun

\* no page open, no daemon, no session_data.json, no session plan computed
UiIdle ==
    /\ daemons = 0
    /\ pages = <<>>
    /\ dataFile = [st |-> "absent", d |-> <<>>]
    /\ plan = NotRun

AppIdle == CostIdle /\ StatsIdle /\ DashIdle /\ UiIdle

\* the collector process not started, its files not yet written
CollectorIdle ==
    /\ apiKey = FALSE
    /\ summaryFile = [exists |-> FALSE, content |-> NoSummary]
    /\ historyLog = <<>>
    /\ mode = "once"
    /\ pc = "start"
    /\ passes = 0
    /\ errorsLogged = 0
    /\ lastPass = NoPass
    /\ stdout = "ok"

AggInit ==
    /\ projects = NoProjects
    /\ parsed = NotRun
    /\ CollectorIdle
    /\ AppIdle
    /\ now \in NowValues
    /\ clock = now
    /\ now2 = now
    /\ E \in SeqsUpTo(RecordValues(now), MaxRecords)
    /\ cfg \in ConfigValues(now)
    /\ out = NotRun

\* One call of compute_local_summary(E).  The clock reads `now` at line 110
\* and, after the loop over the records, at least `now` at line 97.
Aggregate ==
    /\ \E n2 \in now..(now + MaxDrift) :
          /\ now2' = n2
          /\ out' = compute_local_summary(E, now, n2, cfg)
    /\ UNCHANGED <<E, now, cfg, parseVars, collectVars, appVars, uiVars>>

AggNext == Aggregate

SpecAgg == AggInit /\ [][AggNext]_vars

-----------------------------------------------------------------------------
(* Properties of the aggregation functions (under SpecAgg).                *)

TokenFields == {"input", "output", "cache_create", "cache_read"}

RecTok(r, f) ==
    CASE f = "input" -> r.input
      [] f = "output" -> r.output
      [] f = "cache_create" -> r.cache_create
      [] OTHER -> r.cache_read

BucketTok(b, f) ==
    CASE f = "input" -> b.input_tokens
      [] f = "output" -> b.output_tokens
      [] f = "cache_create" -> b.cache_creation_tokens
      [] OTHER -> b.cache_read_tokens

\* the timestamp of r is resolvable
Resolvable(r) == parse_ts(r.ts).st = "ok" /\ parse_ts(r.ts).dt.some
TimeOf(r) == parse_ts(r.ts).dt.t

\* the sum of field f over the records of recs that are resolvable and not
\* before start
RECURSIVE SumSince(_, _, _)
SumSince(recs, f, start) ==
    IF recs = <<>> THEN 0
    ELSE (IF Resolvable(Head(recs)) /\ TimeOf(Head(recs)) >= start
          THEN RecTok(Head(recs), f) ELSE 0)
         + SumSince(Tail(recs), f, start)

\* C1: every token field of the session, daily and weekly bucket that
\* compute_local_summary returns is the sum of that field over exactly the
\* records whose timestamp is resolvable and >= now - 5h, >= the start of
\* now's calendar day, >= now - 7d; a record exactly at a window start is
\* counted.
C1_WindowSums ==
    out.st = "ok" =>
        \A f \in TokenFields :
            /\ BucketTok(out.session, f) = SumSince(E, f, now - SESSION_SECS)
            /\ BucketTok(out.daily, f) = SumSince(E, f, start_of_day(now))
            /\ BucketTok(out.weekly, f) = SumSince(E, f, now - WEEK_SECS)

\* a run over one record exactly at the session start and one a second
\* before it: the session bucket holds the first alone
C1_Witness ==
    /\ out.st = "ok"
    /\ Len(E) = 2
    /\ Resolvable(E[1]) /\ TimeOf(E[1]) = now - SESSION_SECS - 1
    /\ Resolvable(E[2]) /\ TimeOf(E[2]) = now - SESSION_SECS
    /\ out.session.input_tokens = 1
    /\ out.session.cache_read_tokens = 8
    /\ out.weekly.input_tokens = 2

\* the timestamps of the records counted in the session window
SessionTimes ==
    { TimeOf(E[i]) : i \in { j \in 1..Len(E) :
          Resolvable(E[j]) /\ TimeOf(E[j]) >= now - SESSION_SECS } }

MinOf(S) == CHOOSE x \in S : \A y \in S : x <= y

\* C7: session_resets_at is (the least timestamp among the records counted
\* in the session window) + 5h when there is such a record, None otherwise.
C7_SessionReset ==
    out.st = "ok" =>
        IF SessionTimes = {}
        THEN out.session_resets_at = None
        ELSE out.session_resets_at = Some(MinOf(SessionTimes) + SESSION_SECS)

\* two session records, the newer one first in the list
C7_Witness ==
    /\ out.st = "ok"
    /\ Len(E) = 2
    /\ Cardinality(SessionTimes) = 2
    /\ TimeOf(E[1]) > TimeOf(E[2])
    /\ out.session_resets_at = Some(TimeOf(E[2]) + SESSION_SECS)

\* a single session record at T: the reset is T + 5h
C7_WitnessSingle ==
    /\ out.st = "ok" /\ Len(E) = 1 /\ SessionTimes # {}
    /\ out.session_resets_at = Some(TimeOf(E[1]) + SESSION_SECS)

\* the account origin of cfg as a local datetime, when it has one
HasOrigin == cfg.file = "object" /\ config_origin(cfg).kind = "iso"
Origin == iso_to_local(config_origin(cfg))

\* the k with Origin + 7d*k <= now2 < Origin + 7d*(k+1)
CycleIndex == (now2 - Origin) \div WEEK_SECS

\* C8 as stated: for every integer k with O + 7d*k <= now < O + 7d*(k+1),
\* the weekly reset is O + 7d*(k+1), after now and at most 7 days after it.
C8_WeeklyResetEveryK ==
    (out.st = "ok" /\ HasOrigin) =>
        /\ out.weekly_resets_at = Some(Origin + WEEK_SECS * (CycleIndex + 1))
        /\ out.weekly_resets_at.t > now2
        /\ out.weekly_resets_at.t <= now2 + WEEK_SECS

\* C8, amended: the same for every k >= -1, that is for now >= O - 7d.  An
\* origin more than 7 days ahead of now is itself the result.
C8_WeeklyReset ==
    (out.st = "ok" /\ HasOrigin) =>
        /\ Origin + WEEK_SECS * CycleIndex <= now2
        /\ now2 < Origin + WEEK_SECS * (CycleIndex + 1)
        /\ out.weekly_resets_at.some
        /\ out.weekly_resets_at.t > now2
        /\ IF CycleIndex >= -1
           THEN /\ out.weekly_resets_at.t = Origin + WEEK_SECS * (CycleIndex + 1)
                /\ out.weekly_resets_at.t <= now2 + WEEK_SECS
           ELSE out.weekly_resets_at.t = Origin

\* now is exactly one cycle after the origin: the reset is a full cycle
\* later, not now
C8_Witness ==
    /\ out.st = "ok" /\ HasOrigin
    /\ now2 = Origin + WEEK_SECS
    /\ out.weekly_resets_at = Some(now2 + WEEK_SECS)

\* C10 as stated: a second run over the same record list and the same now
\* returns the same buckets, session_oldest, session_newest and both resets.
C10_SameResult ==
    [][(out.st = "ok" /\ out'.st = "ok" /\ E' = E /\ now' = now) => out' = out]_vars

\* C10, amended: a second run over the same record list and the same now
\* returns the same buckets, session_oldest, session_newest and
\* session_resets_at whatever the clock does after line 110;
\* weekly_resets_at is the same when the config file and the clock reading
\* of get_weekly_reset (line 97) are the same too.  The run leaves the
\* snapshot file and the history log as they were.
C10_Deterministic ==
    [][(out.st = "ok" /\ out'.st = "ok" /\ E' = E /\ now' = now) =>
          /\ out'.session = out.session
          /\ out'.daily = out.daily
          /\ out'.weekly = out.weekly
          /\ out'.session_oldest = out.session_oldest
          /\ out'.session_newest = out.session_newest
          /\ out'.session_resets_at = out.session_resets_at
          /\ summaryFile' = summaryFile
          /\ historyLog' = historyLog
          /\ (cfg' = cfg /\ now2' = now2) =>
                 out'.weekly_resets_at = out.weekly_resets_at]_vars

\* a run that counted records in the session window and whose
\* get_weekly_reset read the clock later than line 110 did
C10_Witness ==
    /\ out.st = "ok"
    /\ now2 > now
    /\ out.session.input_tokens > 0
    /\ out.session_oldest.some
    /\ out.weekly_resets_at.some

\* r is counted in the bucket w ("session", "daily", "weekly") of a run at
\* now: the loop body adds r to that bucket
Counted(r, w) == summary_step(EmptyAcc, r, now)[w] # ZeroBucket

\* now is at or after 05:00 local
AfterFive == now % DAY_SECS >= SESSION_SECS

\* C11: every record counted in the daily bucket is counted in the weekly
\* bucket, every record counted in the session bucket is counted in the
\* weekly bucket and, when now is at or after 05:00 local, in the daily
\* bucket; each token total then satisfies session <= daily <= weekly, and
\* session <= weekly at any time of day.
C11_WindowContainment ==
    out.st = "ok" =>
        /\ \A i \in 1..Len(E) :
              /\ Counted(E[i], "daily") => Counted(E[i], "weekly")
              /\ Counted(E[i], "session") => Counted(E[i], "weekly")
              /\ (AfterFive /\ Counted(E[i], "session")) => Counted(E[i], "daily")
        /\ \A f \in TokenFields :
              /\ BucketTok(out.daily, f) <= BucketTok(out.weekly, f)
              /\ BucketTok(out.session, f) <= BucketTok(out.weekly, f)
              /\ AfterFive => BucketTok(out.session, f) <= BucketTok(out.daily, f)

\* a run after 05:00 over a record of the last five hours and a record of
\* the same day before them
C11_Witness ==
    /\ out.st = "ok" /\ AfterFive
    /\ \E i \in 1..Len(E) : Counted(E[i], "session")
    /\ \E i \in 1..Len(E) : Counted(E[i], "daily") /\ ~Counted(E[i], "session")
    /\ out.session.input_tokens > 0
    /\ out.session.input_tokens < out.daily.input_tokens

\* C12: a record whose timestamp is later than now is counted in no bucket
\* and is neither session_oldest nor session_newest.
C12_NothingAfterNow ==
    out.st = "ok" =>
        \A i \in 1..Len(E) :
            (Resolvable(E[i]) /\ TimeOf(E[i]) > now) =>
                /\ ~Counted(E[i], "session")
                /\ ~Counted(E[i], "daily")
                /\ ~Counted(E[i], "weekly")
                /\ out.session_oldest # Some(TimeOf(E[i]))
                /\ out.session_newest # Some(TimeOf(E[i]))

-----------------------------------------------------------------------------
(* The transcript parser on bounded inputs.                                *)

MaxLines == 2        \* the longest file drawn freely
MaxFiles == 2        \* the most files in the directory

ParseNow == 8 * DAY_SECS + 10 * HOUR_SECS

UsageLine1 ==
    Line("object", "usage", "dict", RawIsoZ(ParseNow - HOUR_SECS), RawNull, 1, 2, 4, 8)
UsageLine2 ==
    Line("object", "usage", "dict", RawEmpty, RawNum(ParseNow - DAY_SECS), 3, 0, 5, 0)
TextLine == Line("invalid", "", "", RawNull, RawNull, 0, 0, 0, 0)
ScalarLine == Line("nonobject", "", "", RawNull, RawNull, 0, 0, 0, 0)
NoMessageLine == Line("object", "absent", "", RawIsoZ(ParseNow), RawNull, 0, 0, 0, 0)
MessageTextLine == Line("object", "nondict", "", RawIsoZ(ParseNow), RawNull, 0, 0, 0, 0)
NoUsageLine == Line("object", "nousage", "", RawIsoZ(ParseNow), RawNull, 0, 0, 0, 0)
NullUsageLine == Line("object", "usage", "nondict", RawIsoZ(ParseNow), RawNull, 0, 0, 0, 0)

LineValues ==
    { UsageLine1, UsageLine2, TextLine, ScalarLine, NoMessageLine,
      MessageTextLine, NoUsageLine, NullUsageLine }

\* one usage line among five lines that are no JSON or no usage records
NoisyFile ==
    File("ok", << TextLine, NoMessageLine, UsageLine1, TextLine, NoUsageLine,
                  MessageTextLine >>, "none", 0)

FixtureFiles ==
    { NoisyFile,
      File("ok", << UsageLine2 >>, "none", 0),
      File("ok", << UsageLine1, UsageLine2 >>, "none", 0) }

\* every file of at most MaxLines lines, readable or failing in each way
\* before its first line or after its last
FreeFiles ==
    { File(o, ls, fl, at) :
        o \in {"ok"}, ls \in SeqsUpTo(LineValues, MaxLines),
        fl \in {"none", "ioerror", "decode"}, at \in {0} } \cup
    { File("ok", ls, fl, Len(ls)) :
        ls \in SeqsUpTo(LineValues, MaxLines) \ {<<>>}, fl \in {"ioerror", "decode"} } \cup
    { File("denied", ls, "none", 0) : ls \in SeqsUpTo(LineValues, MaxLines) }

InsertAt(s, i, x) == SubSeq(s, 1, i - 1) \o <<x>> \o SubSeq(s, i, Len(s))

ParseInit ==
    /\ E = <<>> /\ now = ParseNow /\ now2 = ParseNow
    /\ cfg = Config("absent", RawNull, RawNull, <<>>)
    /\ out = NotRun
    /\ parsed = NotRun
    /\ CollectorIdle
    /\ AppIdle
    /\ clock = ParseNow
    /\ \/ projects = NoProjects
       \/ \E f \in FreeFiles, rest \in SeqsUpTo(FixtureFiles, MaxFiles - 1) :
             \E i \in 1..(Len(rest) + 1) :
                projects = [isdir |-> TRUE, files |-> InsertAt(rest, i, f)]

\* One call of parse_all_transcripts().
Parse ==
    /\ parsed' = parse_all_transcripts(projects)
    /\ UNCHANGED <<projects, aggVars, collectVars, appVars, uiVars>>

ParseNext == Parse

SpecParse == ParseInit /\ [][ParseNext]_vars

-----------------------------------------------------------------------------
(* Properties of the transcript parser (under SpecParse).                  *)

\* l is a structured record carrying a usable message.usage payload
IsUsageLine(l) == l.json = "object" /\ l.message = "usage" /\ l.usage = "dict"

\* l is a line on which the loop body ends in an exception it does not catch
IsRaisingLine(l) == parse_line(l).res = "raise"

Readable(f) == f.open = "ok" /\ f.fail = "none"

\* the record of each usage line of ls, in order
RECURSIVE UsageRecords(_)
UsageRecords(ls) ==
    IF ls = <<>> THEN <<>>
    ELSE (IF IsUsageLine(Head(ls)) THEN <<parse_line(Head(ls)).rec>> ELSE <<>>)
         \o UsageRecords(Tail(ls))

\* the usage records of the readable files of fs, in order
RECURSIVE ReadableRecords(_)
ReadableRecords(fs) ==
    IF fs = <<>> THEN <<>>
    ELSE (IF Readable(Head(fs)) THEN UsageRecords(Head(fs).lines) ELSE <<>>)
         \o ReadableRecords(Tail(fs))

AllReadable == \A i \in 1..Len(projects.files) : Readable(projects.files[i])

NoRaisingLine ==
    \A i \in 1..Len(projects.files) :
        \A j \in 1..Len(projects.files[i].lines) :
            ~IsRaisingLine(projects.files[i].lines[j])

\* C5: over readable files, parse_all_transcripts does not raise and returns
\* exactly one record per line that is a structured record with a
\* message.usage payload; every other line (no JSON, blank, a JSON value
\* that is no usage record, an unusable usage payload) is skipped and leaves
\* the records of the other lines and files as they are.
C5_OneRecordPerUsageLine ==
    (parsed.st # "notrun" /\ AllReadable) =>
        /\ parsed.st = "ok"
        /\ parsed.records = ReadableRecords(projects.files)

\* C6: when a file cannot be opened or fails while it is read,
\* parse_all_transcripts does not raise, returns nothing of that file and
\* returns the records of every readable file.
C6_SkipsUnreadableFile ==
    (parsed.st # "notrun" /\ NoRaisingLine) =>
        /\ parsed.st = "ok"
        /\ parsed.records = ReadableRecords(projects.files)

-----------------------------------------------------------------------------
(* The collector process.                                                  *)

INTERVAL_SECS == 300
MaxPasses == 2       \* the most calls of collect() in one run

OverflowLine ==
    Line("object", "usage", "dict", RawNum((TIME_T_MAX + 1) * 1000), RawNull, 1, 0, 0, 0)

\* Log directories: none; readable logs; one file that cannot be opened;
\* a line that is a JSON scalar; a timestamp beyond time_t.
CollectDirs ==
    { NoProjects,
      [isdir |-> TRUE, files |-> << NoisyFile, File("ok", << UsageLine2 >>, "none", 0) >>],
      [isdir |-> TRUE, files |-> << File("denied", << UsageLine1 >>, "none", 0),
                                    File("ok", << UsageLine2 >>, "none", 0) >>],
      [isdir |-> TRUE, files |-> << File("ok", << UsageLine1, ScalarLine >>, "none", 0) >>],
      [isdir |-> TRUE, files |-> << File("ok", << OverflowLine >>, "none", 0) >>] }

\* Config files: absent; no JSON object; no origin key; a malformed origin;
\* an origin whose next cycle starts one second after the first pass.
CollectConfigs ==
    { Config("absent", RawNull, RawNull, <<>>),
      Config("nonobject", RawNull, RawNull, <<>>),
      Config("object", RawNull, RawEmpty, << 3, 4 >>),
      Config("object", RawBad, RawNull, << 3 >>),
      Config("object", RawIsoNaive(ParseNow + 1 - WEEK_SECS), RawNull, << 3, 4 >>) }

RespData ==
    Response("object", TRUE, << ApiResult(1, 2, 4, 8, 100), ApiResult(16, 0, 0, 0, 5) >>)
RespNoBuckets == Response("object", FALSE, <<>>)

ResponseValues ==
    { RespData, RespNoBuckets, Response("neterror", FALSE, <<>>),
      Response("status", FALSE, <<>>), Response("notjson", FALSE, <<>>),
      Response("nonobject", FALSE, <<>>) }

Raises(resp) == api_totals(resp).st = "raise"

\* What the three requests of a pass meet.  A request that follows one that
\* raised is not sent; its entry is then RespNoBuckets and is not read.  The
\* requests that are answered with an object are answered alike.
Requests ==
    { rs \in [session : ResponseValues, daily : ResponseValues, weekly : ResponseValues] :
        /\ Raises(rs.session) => rs.daily = RespNoBuckets
        /\ (Raises(rs.session) \/ Raises(rs.daily)) => rs.weekly = RespNoBuckets
        /\ ~Raises(rs.daily) /\ ~Raises(rs.session) => rs.daily = rs.session
        /\ ~Raises(rs.weekly) /\ ~Raises(rs.daily) /\ ~Raises(rs.session) =>
               rs.weekly = rs.session }

NotSent == [session |-> RespNoBuckets, daily |-> RespNoBuckets, weekly |-> RespNoBuckets]

\* how the Admin API failed in a pass: the kind of the response at which
\* collect_from_admin_api raised, "" when it did not raise
failure_kind(key, resps) ==
    IF ~key THEN ""
    ELSE IF api_totals(resps.session).st = "raise" THEN resps.session.kind
    ELSE IF api_totals(resps.daily).st = "raise" THEN resps.daily.kind
    ELSE IF api_totals(resps.weekly).st = "raise" THEN resps.weekly.kind
    ELSE ""

\* a response without the key buckets was taken for one without usage
defaulted(key, resps) ==
    /\ key
    /\ failure_kind(key, resps) = ""
    /\ \E q \in {"session", "daily", "weekly"} : ~resps[q].hasBuckets

CollectInit ==
    /\ E = <<>> /\ out = NotRun /\ parsed = NotRun
    /\ clock = ParseNow /\ now = ParseNow /\ now2 = ParseNow
    /\ projects \in CollectDirs
    /\ cfg \in CollectConfigs
    /\ apiKey \in BOOLEAN
    /\ mode \in {"once", "daemon"}
    /\ summaryFile = [exists |-> FALSE, content |-> NoSummary]
    /\ historyLog = <<>>
    /\ pc = "start"
    /\ passes = 0
    /\ errorsLogged = 0
    /\ lastPass = NoPass
    /\ stdout = "ok"
    /\ AppIdle

\* log() (lines 233-235) prints to the standard output.  When that is a pipe
\* whose reader has gone, or a file on a full disk, print raises OSError.
StdoutBreaks ==
    /\ stdout = "ok" /\ pc # "exit"
    /\ stdout' = "broken"
    /\ UNCHANGED <<aggVars, parseVars, clock, apiKey, summaryFile, historyLog, mode, pc,
                   passes, errorsLogged, lastPass, appVars, uiVars>>

\* One call of collect() (lines 238-286): the summary, then the two writes.
\* An exception leaves collect() before anything is written; the first
\* log() of a pass (line 246 or 255, or line 251 after line 246 raised)
\* comes before them too.
Collect(resps, n2) ==
    \E r \in {collect_summary(apiKey, resps, projects, cfg, clock, n2, n2)} :
        /\ passes' = passes + 1
        /\ now' = clock
        /\ now2' = n2
        /\ clock' = n2
        /\ lastPass' =
              IF stdout = "broken"
              THEN [res |-> "raised", exc |-> "OSError", at |-> "log",
                    remote |-> IF apiKey THEN "untried" ELSE "off",
                    failure |-> "", defaulted |-> FALSE, resps |-> NotSent]
              ELSE [res |-> r.res, exc |-> r.exc, at |-> r.at, remote |-> r.remote,
                    failure |-> failure_kind(apiKey, resps),
                    defaulted |-> defaulted(apiKey, resps), resps |-> resps]
        /\ IF stdout = "ok" /\ r.res = "saved"
           THEN /\ summaryFile' = [exists |-> TRUE, content |-> r.summary]
                /\ historyLog' = Append(historyLog, r.summary)
           ELSE UNCHANGED <<summaryFile, historyLog>>
        /\ UNCHANGED <<E, cfg, out, parseVars, apiKey, mode, stdout, appVars, uiVars>>

\* main() without --daemon: collect() once; an exception ends the process.
RunOnce ==
    /\ mode = "once" /\ pc = "start"
    /\ \E resps \in (IF apiKey THEN Requests ELSE {NotSent}) :
          \E n2 \in clock..(clock + MaxDrift) : Collect(resps, n2)
    /\ pc' = "exit"
    /\ UNCHANGED errorsLogged

\* main() with --daemon, the try statement of the loop (lines 296-299):
\* collect(), and log("ERROR: ...") for any Exception.  An exception that
\* log() raises in the except clause leaves main().
DaemonPass ==
    /\ mode = "daemon" /\ pc = "start" /\ passes < MaxPasses
    /\ \E resps \in (IF apiKey THEN Requests ELSE {NotSent}) :
          \E n2 \in clock..(clock + MaxDrift) : Collect(resps, n2)
    /\ pc' = IF lastPass'.res = "raised" /\ stdout = "broken" THEN "exit" ELSE "sleep"
    /\ errorsLogged' = IF lastPass'.res = "raised" /\ stdout = "ok"
                       THEN errorsLogged + 1 ELSE errorsLogged

\* time.sleep(INTERVAL_SECS) (line 300)
Sleep ==
    /\ mode = "daemon" /\ pc = "sleep"
    /\ clock' = clock + INTERVAL_SECS
    /\ pc' = "start"
    /\ UNCHANGED <<aggVars, parseVars, apiKey, summaryFile, historyLog, mode, passes,
                   errorsLogged, lastPass, stdout, appVars, uiVars>>

CollectNext == RunOnce \/ DaemonPass \/ Sleep \/ StdoutBreaks

SpecCollect == CollectInit /\ [][CollectNext]_vars

-----------------------------------------------------------------------------
(* Properties of the collector process (under SpecCollect).                *)

Snapshot == summaryFile.content

\* what compute_local_summary gives over the logs, the clock readings and
\* the config file of the last pass
DirectLocal ==
    compute_local_summary(parse_all_transcripts(projects).records, now, now2, cfg)

\* C2: after every pass the history log has one line per pass, the snapshot
\* file holds the snapshot of the last pass, and its source is admin_api
\* exactly when its buckets are the Admin API's.
C2_OneSnapshotPerPass ==
    /\ Len(historyLog) = passes
    /\ passes > 0 =>
          /\ summaryFile.exists
          /\ Snapshot = historyLog[Len(historyLog)]
          /\ Snapshot.source = (IF lastPass.remote = "ok" THEN "admin_api" ELSE "local")

\* C3: a pass in which a request to the Admin API failed, by a network
\* error, a non-success status or a response that is not the usage report,
\* does not raise and persists a snapshot with source local whose buckets
\* are those of the local aggregation over the same logs.
C3_FallsBackToLocal ==
    (lastPass.failure # "" \/ lastPass.defaulted) =>
        /\ lastPass.res = "saved"
        /\ Snapshot = historyLog[Len(historyLog)]
        /\ Snapshot.source = "local"
        /\ parse_all_transcripts(projects).st = "ok"
        /\ DirectLocal.st = "ok"
        /\ Snapshot.session = DirectLocal.session
        /\ Snapshot.daily = DirectLocal.daily
        /\ Snapshot.weekly = DirectLocal.weekly

\* C4: in --daemon mode the loop of main() is never left, whatever a pass
\* raises.
C4_DaemonNeverExits == mode = "daemon" => pc # "exit"

\* C9: a pass with no usable origin in the config file does not raise and
\* persists a snapshot whose weekly_resets_at is null.
C9_NoOriginStillPersists ==
    (passes > 0 /\ ~HasOrigin) =>
        /\ lastPass.res = "saved"
        /\ Snapshot = historyLog[Len(historyLog)]
        /\ Snapshot.weekly_resets_at = RawNull

\* the three requests of the last pass that did not raise, and the first
\* one that did
Succeeded == { q \in {"session", "daily", "weekly"} : ~Raises(lastPass.resps[q]) }
FirstFailed ==
    IF Raises(lastPass.resps.session) THEN "session"
    ELSE IF Raises(lastPass.resps.daily) THEN "daily"
    ELSE IF Raises(lastPass.resps.weekly) THEN "weekly"
    ELSE ""

\* the three buckets of the snapshot
Buckets(sm) == [session |-> sm.session, daily |-> sm.daily, weekly |-> sm.weekly]

C15_LastWriteWinsLogGrows ==
    [][IF passes' = passes + 1
       THEN /\ summaryFile'.exists
            /\ summaryFile'.content.timestamp = isoformat(Some(now2'))
            /\ historyLog' = Append(historyLog, summaryFile'.content)
            /\ Len(historyLog') = passes'
       ELSE summaryFile' = summaryFile /\ historyLog' = historyLog]_vars

-----------------------------------------------------------------------------
(* The dashboard (app.py): effective_cost.                                 *)

\* d.get(k, default), d a JSON object kept as a record
Get(d, k, default) == IF k \in DOMAIN d THEN d[k] ELSE default

\* (a slip: cache reads at the collector's weight)
effective_cost_full(d) ==
    Get(d, "input_tokens", 0) * 240 + Get(d, "output_tokens", 0) * 1200
        + Get(d, "cache_creation_tokens", 0) * 300 + Get(d, "cache_read_tokens", 0) * 30

\* (a slip: cache reads at a tenth of the input weight)
effective_cost_tenth(d) ==
    Get(d, "input_tokens", 0) * 240 + Get(d, "output_tokens", 0) * 1200
        + Get(d, "cache_creation_tokens", 0) * 300 + Get(d, "cache_read_tokens", 0) * 24

\* effective_cost(d) (lines 272-279):
\* (inp * 15 + out * 75 + cc * 18.75 + cr * 0.1875) / 1_000_000
effective_cost(d) ==
    Get(d, "input_tokens", 0) * 240 + Get(d, "output_tokens", 0) * 1200
        + Get(d, "cache_creation_tokens", 0) * 300 + Get(d, "cache_read_tokens", 0) * 3

\* the collector's cost formula (collector.py line 131) on the totals of d
display_cost(d) ==
    record_cost([ts |-> RawNull,
                 input |-> Get(d, "input_tokens", 0),
                 output |-> Get(d, "output_tokens", 0),
                 cache_create |-> Get(d, "cache_creation_tokens", 0),
                 cache_read |-> Get(d, "cache_read_tokens", 0)])

\* d with n more tokens under the key k
add_tokens(d, k, n) ==
    [x \in DOMAIN d \cup {k} |-> IF x = k THEN Get(d, k, 0) + n ELSE d[x]]

MILLION == 1000000
MaxExtra == 2        \* the most tokens added, besides the bucket's own counts

TokenValues == {0, 1, 3, MILLION}

Bucket(inp, outp, cc, cr) ==
    [input_tokens |-> inp, output_tokens |-> outp, cache_creation_tokens |-> cc,
     cache_read_tokens |-> cr,
     cost |-> inp * 240 + outp * 1200 + cc * 300 + cr * 30]

\* the buckets of a snapshot, and the {} that stands for a missing one
BucketValues ==
    { Bucket(i, o, cc, cr) : i \in TokenValues, o \in TokenValues,
                             cc \in TokenValues, cr \in TokenValues } \cup { <<>> }

\* the collector and its inputs left aside
BackendIdle ==
    /\ E = <<>> /\ now = ParseNow /\ now2 = ParseNow
    /\ cfg = Config("absent", RawNull, RawNull, <<>>)
    /\ out = NotRun
    /\ projects = NoProjects /\ parsed = NotRun
    /\ CollectorIdle
    /\ clock = ParseNow

CostInit ==
    /\ BackendIdle /\ StatsIdle /\ DashIdle /\ UiIdle
    /\ bucket \in BucketValues
    /\ extra \in (1..MaxExtra) \cup ({Get(bucket, "cache_read_tokens", 0)} \ {0})
    /\ priced = NotRun

\* effective_cost on bucket, on bucket with extra more input tokens and on
\* bucket with extra more cache-read tokens; the collector's formula on bucket
EffectiveCost ==
    /\ priced' = [st |-> "ok",
                 eff |-> effective_cost(bucket),
                 effIn |-> effective_cost(add_tokens(bucket, "input_tokens", extra)),
                 effCr |-> effective_cost(add_tokens(bucket, "cache_read_tokens", extra)),
                 display |-> display_cost(bucket)]
    /\ UNCHANGED <<aggVars, parseVars, collectVars, uiVars, bucket, extra, stats, disk, writer,
                   reader, caps, view>>

CostNext == EffectiveCost

SpecCost == CostInit /\ [][CostNext]_vars

-----------------------------------------------------------------------------
(* Properties of effective_cost (under SpecCost).                          *)

\* C16 as stated: extra more cache-read tokens change the effective cost by
\* one tenth of what extra more input tokens change it by.
C16_CacheReadTenthOfInput ==
    priced.st = "ok" => 10 * (priced.effCr - priced.eff) = priced.effIn - priced.eff

\* C16, amended: extra more cache-read tokens change the effective cost by
\* 0.1875 per million, extra more input tokens by 15 per million: the first
\* change is one eightieth of the second.
C16_CacheReadEightiethOfInput ==
    priced.st = "ok" =>
        /\ priced.effCr - priced.eff = 3 * extra
        /\ priced.effIn - priced.eff = 240 * extra
        /\ 80 * (priced.effCr - priced.eff) = priced.effIn - priced.eff

\* a bucket with as many input as cache-read tokens, both doubled
C16_Witness ==
    /\ priced.st = "ok"
    /\ bucket # <<>>
    /\ bucket.cache_read_tokens = MILLION /\ bucket.input_tokens = MILLION
    /\ extra = MILLION
    /\ priced.effCr > priced.eff

\* the bucket with one token under the key k and none elsewhere
UnitBucket(k) == add_tokens(ZeroBucket, k, 1)

\* C17: effective_cost and the collector's formula weigh input, output and
\* cache-write tokens alike (15, 75, 18.75 per million) and cache-read
\* tokens at 0.1875 against 1.875; they agree on every bucket without
\* cache-read tokens, give 15.0 for 1,000,000 input tokens alone, and the
\* effective cost is never above the collector's.
C17_ProfilesDifferInCacheRead ==
    /\ \A k \in {"input_tokens", "output_tokens", "cache_creation_tokens"} :
          effective_cost(UnitBucket(k)) = display_cost(UnitBucket(k))
    /\ effective_cost(UnitBucket("input_tokens")) = 15 * 16
    /\ effective_cost(UnitBucket("output_tokens")) = 75 * 16
    /\ 4 * effective_cost(UnitBucket("cache_creation_tokens")) = 75 * 16
    /\ 10 * effective_cost(UnitBucket("cache_read_tokens")) =
           display_cost(UnitBucket("cache_read_tokens"))
    /\ 8 * display_cost(UnitBucket("cache_read_tokens")) = 15 * 16
    /\ priced.st = "ok" =>
          /\ priced.eff <= priced.display
          /\ Get(bucket, "cache_read_tokens", 0) = 0 => priced.eff = priced.display
          /\ bucket = Bucket(MILLION, 0, 0, 0) =>
                 priced.eff = 15 * 16 * MILLION /\ priced.display = 15 * 16 * MILLION

\* 1,000,000 input tokens alone cost 15.0 in both profiles
C17_Witness ==
    /\ priced.st = "ok"
    /\ bucket = Bucket(MILLION, 0, 0, 0)
    /\ priced.eff = priced.display

-----------------------------------------------------------------------------
(* The dashboard (app.py): compute_usage_stats.                            *)

\* now.weekday(), 0 for Monday; second 0 is the midnight that starts a Monday
weekday(n) == (n \div DAY_SECS) % 7

\* (a slip: the week starts on Tuesday)
tuesday_start(n) == start_of_day(n - ((weekday(n) + 6) % 7) * DAY_SECS)

\* week_start (lines 95-96): 00:00 of the Monday of now's week
monday_start(n) == start_of_day(n - weekday(n) * DAY_SECS)

\* lines 109-121: the statements of parse_ts, with `continue` for its None
stats_ts(ts) == parse_ts(ts)

EmptyStats ==
    [raised |-> FALSE, session_tokens |-> 0, session_calls |-> 0, week_tokens |-> 0,
     week_calls |-> 0, total_tokens |-> 0, total_calls |-> 0]

\* One iteration of `for r in records` (lines 105-127).
stats_step(acc, r, n) ==
    LET t == r.input + r.output + r.cache_read + r.cache_create
        p == stats_ts(r.ts)
        counted == [acc EXCEPT !.total_tokens = @ + t, !.total_calls = @ + 1]
    IN  IF acc.raised THEN acc
        ELSE IF p.st = "raise" THEN [counted EXCEPT !.raised = TRUE]
        ELSE IF ~p.dt.some THEN counted
        ELSE LET inS == p.dt.t >= n - SESSION_SECS
                 inW == p.dt.t >= monday_start(n)
             IN  [counted EXCEPT
                     !.session_tokens = IF inS THEN @ + t ELSE @,
                     !.session_calls = IF inS THEN @ + 1 ELSE @,
                     !.week_tokens = IF inW THEN @ + t ELSE @,
                     !.week_calls = IF inW THEN @ + 1 ELSE @]

RECURSIVE stats_loop(_, _, _)
stats_loop(acc, records, n) ==
    IF records = <<>> THEN acc
    ELSE CHOOSE r \in { stats_loop(a, Tail(records), n) :
                          a \in {stats_step(acc, Head(records), n)} } : TRUE

\* compute_usage_stats(records) (lines 91-129) with datetime.now() = n;
\* st = "raise" when an exception leaves the function
compute_usage_stats(records, n) ==
    CHOOSE r \in { IF acc.raised
                   THEN [st |-> "raise", exc |-> "OverflowError",
                         session_tokens |-> 0, session_calls |-> 0, week_tokens |-> 0,
                         week_calls |-> 0, total_tokens |-> 0, total_calls |-> 0]
                   ELSE [st |-> "ok", exc |-> "",
                         session_tokens |-> acc.session_tokens,
                         session_calls |-> acc.session_calls,
                         week_tokens |-> acc.week_tokens,
                         week_calls |-> acc.week_calls,
                         total_tokens |-> acc.total_tokens,
                         total_calls |-> acc.total_calls] :
                     acc \in {stats_loop(EmptyStats, records, n)} } : TRUE

\* the clock readings of the aggregation, and 03:00 of a Monday
StatsNowValues == NowValues \cup {7 * DAY_SECS + 3 * HOUR_SECS}

StatsInit ==
    /\ now \in StatsNowValues
    /\ now2 = now /\ clock = now
    /\ E \in SeqsUpTo(RecordValues(now), MaxRecords)
    /\ cfg = Config("absent", RawNull, RawNull, <<>>)
    /\ out = NotRun
    /\ projects = NoProjects /\ parsed = NotRun
    /\ CollectorIdle
    /\ CostIdle /\ DashIdle /\ UiIdle
    /\ stats = NotRun

\* One call of compute_usage_stats(E).
UsageStats ==
    /\ stats' = compute_usage_stats(E, now)
    /\ UNCHANGED <<aggVars, parseVars, collectVars, uiVars, bucket, extra, priced, disk, writer,
                   reader, caps, view>>

StatsNext == UsageStats

SpecStats == StatsInit /\ [][StatsNext]_vars

-----------------------------------------------------------------------------
(* Properties of compute_usage_stats (under SpecStats).                    *)

RECURSIVE SumAll(_)
SumAll(recs) ==
    IF recs = <<>> THEN 0
    ELSE Head(recs).input + Head(recs).output + Head(recs).cache_read
             + Head(recs).cache_create + SumAll(Tail(recs))

\* the records of E with a resolvable timestamp
ResolvableOf(recs) == SelectSeq(recs, Resolvable)

\* C18: records without a resolvable timestamp are in no window of the
\* collector's aggregation and of compute_usage_stats, are counted in
\* total_tokens and total_calls, and make neither aggregation fail.
C18_UnresolvableOnlyInTotals ==
    stats.st # "notrun" =>
        /\ stats.st = "ok"
        /\ compute_local_summary(E, now, now, cfg).st = "ok"
        /\ stats.total_calls = Len(E)
        /\ stats.total_tokens = SumAll(E)
        /\ stats.session_calls = compute_usage_stats(ResolvableOf(E), now).session_calls
        /\ stats.week_tokens = compute_usage_stats(ResolvableOf(E), now).week_tokens
        /\ \A i \in 1..Len(E) :
              ~Resolvable(E[i]) =>
                  \A w \in {"session", "daily", "weekly"} : ~Counted(E[i], w)

\* C27 as stated: session <= week <= total, for tokens and for calls.
C27_SessionWeekTotalOrdered ==
    stats.st = "ok" =>
        /\ stats.session_tokens <= stats.week_tokens
        /\ stats.week_tokens <= stats.total_tokens
        /\ stats.session_calls <= stats.week_calls
        /\ stats.week_calls <= stats.total_calls

\* the call is made in the first five hours of a Monday
EarlyMonday == now % WEEK_SECS < 5 * HOUR_SECS

\* C27: whenever compute_usage_stats returns, session <= total and
\* week <= total; session <= week when now is five hours or more after
\* Monday 00:00; the week counts exactly the records from Monday 00:00 on.
C27_WindowsWithinTotals ==
    stats.st = "ok" =>
        /\ stats.session_tokens <= stats.total_tokens
        /\ stats.week_tokens <= stats.total_tokens
        /\ stats.session_calls <= stats.total_calls
        /\ stats.week_calls <= stats.total_calls
        /\ ~EarlyMonday =>
              /\ stats.session_tokens <= stats.week_tokens
              /\ stats.session_calls <= stats.week_calls
        /\ stats.week_calls =
              Cardinality({ i \in 1..Len(E) :
                              Resolvable(E[i]) /\ TimeOf(E[i]) >= now - (now % WEEK_SECS) })

\* at 03:00 of a Monday a record of the Sunday evening is counted in the
\* session and not in the week
C27_Witness ==
    /\ stats.st = "ok" /\ EarlyMonday
    /\ stats.session_calls > stats.week_calls
    /\ stats.session_tokens > stats.week_tokens
    /\ stats.session_calls <= stats.total_calls

-----------------------------------------------------------------------------
(* The dashboard (app.py): read_collector_summary.                         *)
(*                                                                         *)
(* A file is a sequence of bytes; the byte [doc, pos] is the pos-th byte   *)
(* of the text json.dump writes for the JSON value doc.  Texts of equal    *)
(* length are taken to have their braces at the same places, so that the   *)
(* head of one followed by the tail of another is a JSON text again.       *)

ObjectDoc(o) == [json |-> "object", obj |-> o]
\* a JSON value that is no object: [], 42, null
NonObjectDoc == [json |-> "nonobject", obj |-> <<>>]
\* a text that is no JSON
GarbageDoc == [json |-> "invalid", obj |-> <<>>]

\* the length of the text of doc: a snapshot of the local path, with its
\* reset times, is longer than one of the Admin API, with nulls
text_len(doc) ==
    IF doc.json = "object" /\ Get(doc.obj, "source", "") = "local" THEN 3
    ELSE IF doc.json = "object" THEN 2
    ELSE 1

\* json.dump(doc, f): the bytes written when f is closed
text(doc) == [i \in 1..text_len(doc) |-> [doc |-> doc, pos |-> i]]

\* b is the byte that closes the text of its value
closes(b) == b.pos = text_len(b.doc)

\* (a slip: bytes after the end of the value are not looked at)
json_load_lenient(bytes) ==
    IF /\ bytes # <<>>
       /\ \A i \in 1..Len(bytes) : bytes[i].pos = i /\ bytes[i].doc.json # "invalid"
       /\ closes(bytes[Len(bytes)])
    THEN [st |-> "ok", doc |-> bytes[1].doc,
          whole |-> \A i \in 1..Len(bytes) : bytes[i].doc = bytes[1].doc]
    ELSE [st |-> "JSONDecodeError", doc |-> GarbageDoc, whole |-> FALSE]

\* json.load over the bytes read: the value, or JSONDecodeError for an
\* empty text, a text that stops early, a text with data after its end and
\* a text that is no JSON.  whole: all bytes are of one json.dump.
json_load(bytes) ==
    IF /\ bytes # <<>>
       /\ \A i \in 1..Len(bytes) :
             /\ bytes[i].pos = i
             /\ bytes[i].doc.json # "invalid"
             /\ closes(bytes[i]) <=> i = Len(bytes)
    THEN [st |-> "ok", doc |-> bytes[1].doc,
          whole |-> \A i \in 1..Len(bytes) : bytes[i].doc = bytes[1].doc]
    ELSE [st |-> "JSONDecodeError", doc |-> GarbageDoc, whole |-> FALSE]

FIFTEEN_MIN == 900

\* (a slip: stale from 15 minutes on)
exceeds_ge(age, limit) == age >= limit

\* age.total_seconds() > 900 (line 249)
exceeds(age, limit) == age > limit

\* int(x / 60) for x seconds: rounded towards zero
int_div(x, y) == IF x >= 0 THEN x \div y ELSE -((-x) \div y)

\* what read_collector_summary returns or raises: None, or data with or
\* without the keys _age_minutes and _stale
NoneResult ==
    [st |-> "ok", exc |-> "", some |-> FALSE, whole |-> TRUE, data |-> <<>>,
     flagged |-> FALSE, age_minutes |-> 0, stale |-> FALSE]

DataResult(j, flagged, age, stale) ==
    [st |-> "ok", exc |-> "", some |-> TRUE, whole |-> j.whole, data |-> j.doc.obj,
     flagged |-> flagged, age_minutes |-> age, stale |-> stale]

RaisedResult(exc) ==
    [st |-> "raise", exc |-> exc, some |-> FALSE, whole |-> TRUE, data |-> <<>>,
     flagged |-> FALSE, age_minutes |-> 0, stale |-> FALSE]

\* Lines 240-252 on the value j that json.load returned, with
\* datetime.now() = n.
summary_flags(j, n) ==
    IF j.doc.json # "object" THEN RaisedResult("AttributeError")    \* data.get
    ELSE LET ts == Get(j.doc.obj, "timestamp", RawEmpty)
         IN  IF Falsy(ts) THEN DataResult(j, FALSE, 0, FALSE)
             ELSE IF ts.kind # "iso" THEN DataResult(j, TRUE, -1, TRUE)
             ELSE DataResult(j, TRUE, int_div(n - iso_to_local(ts), 60),
                             exceeds(n - iso_to_local(ts), FIFTEEN_MIN))

\* (a slip: the docstring's reader, None for a stale snapshot)
read_collector_summary_fresh_only(d, n) ==
    IF ~d.exists THEN NoneResult
    ELSE CHOOSE r \in { IF j.st # "ok" THEN NoneResult
                        ELSE IF summary_flags(j, n).stale THEN NoneResult
                        ELSE summary_flags(j, n) :
                          j \in {json_load(d.bytes)} } : TRUE

\* read_collector_summary() (lines 228-253) on the file d read in one piece
read_collector_summary(d, n) ==
    IF ~d.exists THEN NoneResult
    ELSE CHOOSE r \in { IF j.st # "ok" THEN NoneResult ELSE summary_flags(j, n) :
                          j \in {json_load(d.bytes)} } : TRUE

-----------------------------------------------------------------------------
(* The dashboard (app.py): the script's usage section and Calibrate.       *)
(* Caps are kept in cents; CENT is a cent in the unit of the costs.        *)

CENT == 160000
SESS_CAP_DEFAULT == 4000
WEEK_CAP_DEFAULT == 9600

Min(a, b) == IF a <= b THEN a ELSE b

\* round(num / den) for num >= 0, den > 0: the nearest integer, the even
\* one of two equally near
round_div(num, den) ==
    LET q == num \div den
        r == num % den
    IN  IF 2 * r > den \/ (2 * r = den /\ q % 2 = 1) THEN q + 1 ELSE q

\* get_project_costs(read_claude_config())[0] (lines 140-157)
total_cost(c) == IF c.file = "object" THEN sum_costs(c.lastCosts) ELSE 0

\* min(used / cap * 100, 100) if cap > 0 else 0 (lines 723-724), rounded down
percent(used, cap) == IF cap > 0 THEN Min((used * 100) \div (cap * CENT), 100) ELSE 0

\* lines 783-788
fresh_text(age_min, is_stale) ==
    IF age_min >= 0 /\ ~is_stale THEN "Updated {m} min ago"
    ELSE IF is_stale /\ age_min >= 0 THEN "Data is {m} min old"
    ELSE ""

RaisedView(exc) == [st |-> "raise", exc |-> exc, screen |-> ""]

StoppedView == [st |-> "ok", exc |-> "", screen |-> "stopped"]

\* sess_reset_str (lines 727-742) for the snapshot's session_resets_at.
\* fromisoformat raises for a value that is no ISO string, and the
\* subtraction from the naive now raises for one with a zone.
sess_reset_str(raw, n) ==
    IF Falsy(raw) THEN "no usage in current window"
    ELSE IF raw.kind # "iso" \/ raw.zone # "naive" THEN "5-hour rolling window"
    ELSE IF raw.v - n > 0 THEN "resets {t} ({cd})"
    ELSE "reset (window clear)"

\* week_reset_str (lines 745-765) for the snapshot's weekly_resets_at
week_reset_str(raw, n) ==
    IF Falsy(raw) THEN ""
    ELSE IF raw.kind # "iso" \/ raw.zone # "naive" THEN ""
    ELSE IF raw.v - n >= DAY_SECS THEN "resets {dt} ({d}d {h}h)"
    ELSE "resets {dt} ({h}h)"

\* The usage section (lines 694-788) for what read_collector_summary
\* returned, the saved caps k and the config file c, at the clock reading n.
usage_view(col, k, c, n) ==
    LET c_sess == Get(col.data, "session", <<>>)
        c_week == Get(col.data, "weekly", <<>>)
        sess_used == IF col.some THEN effective_cost(c_sess) ELSE total_cost(c) \div 2
        week_used == IF col.some THEN effective_cost(c_week) ELSE total_cost(c)
        age_min == IF col.some /\ col.flagged THEN col.age_minutes ELSE -1
        is_stale == IF col.some THEN (col.flagged /\ col.stale) ELSE TRUE
        sess_cap == IF k.has THEN k.session ELSE SESS_CAP_DEFAULT
        week_cap == IF k.has THEN k.weekly ELSE WEEK_CAP_DEFAULT
    IN  [st |-> "ok", exc |-> "", screen |-> "usage",
         from_collector |-> col.some,
         sess_used |-> sess_used, week_used |-> week_used,
         sess_cap |-> sess_cap, week_cap |-> week_cap,
         sess_pct |-> percent(sess_used, sess_cap),
         week_pct |-> percent(week_used, week_cap),
         age_min |-> age_min, is_stale |-> is_stale,
         fresh_text |-> fresh_text(age_min, is_stale),
         sess_reset_str |->
             sess_reset_str(IF col.some THEN Get(col.data, "session_resets_at", RawNull)
                            ELSE RawNull, n),
         week_reset_str |->
             week_reset_str(IF col.some THEN Get(col.data, "weekly_resets_at", RawNull)
                            ELSE RawNull, n)]

\* the caps Calibrate saves (lines 627-630) for the entered percentages
calibrated_caps(col, cal_sess, cal_week) ==
    [has |-> TRUE,
     session |-> round_div(effective_cost(Get(col.data, "session", <<>>)) * 100,
                           cal_sess * CENT),
     weekly |-> round_div(effective_cost(Get(col.data, "weekly", <<>>)) * 100,
                          cal_week * CENT)]

\* d without the key k
RemoveKey(d, k) == [x \in DOMAIN d \ {k} |-> d[x]]

DashBuckets == { ZeroBucket, Bucket(1, 0, 0, 0), Bucket(10000, 10000, 10000, 10000) }

\* timestamps 20, 5, 15 minutes and 15 minutes and a second before n, one
\* after n, one in UTC, and values that are no timestamp
StampValues(n) ==
    { RawIsoNaive(n - 1200), RawIsoNaive(n - 300), RawIsoNaive(n - FIFTEEN_MIN),
      RawIsoNaive(n - FIFTEEN_MIN - 1), RawIsoNaive(n + 60),
      RawIsoZ((n - 1200) - TZ_OFFSET), RawBad, RawNum(5), RawEmpty, RawNull }

SnapshotObj(ts, bs, bw) ==
    Summary(ts, "local", [session |-> bs, daily |-> bs, weekly |-> bw],
            RawIsoNaive(ParseNow), RawIsoNaive(ParseNow - SESSION_SECS),
            RawIsoNaive(ParseNow - 60), RawNull, 0)

SnapshotObjs(n) ==
    { SnapshotObj(ts, bs, bw) :
        ts \in StampValues(n),
        bs \in DashBuckets,
        bw \in { b \in DashBuckets : b.input_tokens >= 10000 } }
    \cup { SnapshotObj(RawIsoNaive(n - 300), ZeroBucket, ZeroBucket),
           RemoveKey(SnapshotObj(RawIsoNaive(n - 300), ZeroBucket, ZeroBucket), "timestamp"),
           RemoveKey(SnapshotObj(RawIsoNaive(n - 300), ZeroBucket, ZeroBucket), "session"),
           Summary(RawIsoNaive(n - 300), "admin_api",
                   [session |-> Bucket(1, 0, 0, 0), daily |-> Bucket(1, 0, 0, 0),
                    weekly |-> Bucket(10000, 10000, 10000, 10000)],
                   RawNull, RawNull, RawNull, RawNull, 0),
           <<>> }

\* latest_summary.json: absent, empty, cut short, no JSON, no object, objects
DiskValues(n) ==
    { [exists |-> FALSE, bytes |-> <<>>],
      [exists |-> TRUE, bytes |-> <<>>],
      [exists |-> TRUE,
       bytes |-> SubSeq(text(ObjectDoc(SnapshotObj(RawIsoNaive(n - 300), ZeroBucket,
                                                   ZeroBucket))), 1, 1)],
      [exists |-> TRUE, bytes |-> text(GarbageDoc)],
      [exists |-> TRUE, bytes |-> text(NonObjectDoc)] }
    \cup { [exists |-> TRUE, bytes |-> text(ObjectDoc(o))] : o \in SnapshotObjs(n) }

PercentValues == {1, 19, 100}

DashConfigs ==
    { Config("absent", RawNull, RawNull, <<>>),
      Config("object", RawNull, RawNull, << 4 * CENT, 6 * CENT >>) }

DashInit ==
    /\ E = <<>> /\ now = ParseNow /\ now2 = ParseNow
    /\ out = NotRun
    /\ projects = NoProjects /\ parsed = NotRun
    /\ CollectorIdle
    /\ clock = ParseNow
    /\ CostIdle /\ StatsIdle /\ UiIdle
    /\ cfg \in DashConfigs
    /\ disk \in DiskValues(clock)
    /\ writer = [pc |-> "idle"]
    /\ reader = [pc |-> "idle"]
    /\ caps = [has |-> FALSE, session |-> 0, weekly |-> 0]
    /\ view = NotRun

\* One run of the script to the end of the usage section (lines 314-840);
\* active: the collector daemon is running (line 322).
Render(active) ==
    /\ \E col \in {read_collector_summary(disk, clock)} :
          view' = IF col.st = "raise" THEN RaisedView(col.exc)
                  ELSE IF ~active THEN StoppedView
                  ELSE usage_view(col, caps, cfg, clock)
    /\ UNCHANGED <<aggVars, parseVars, collectVars, uiVars, bucket, extra, priced, stats, disk,
                   writer, reader, caps>>

\* The Calibrate button (lines 621-637) with the two number inputs.
Calibrate(cal_sess, cal_week) ==
    /\ \E col \in {read_collector_summary(disk, clock)} :
          /\ col.st = "ok"
          /\ caps' = IF col.some /\ DOMAIN col.data # {}
                     THEN calibrated_caps(col, cal_sess, cal_week)
                     ELSE caps
    /\ UNCHANGED <<aggVars, parseVars, collectVars, uiVars, bucket, extra, priced, stats, disk,
                   writer, reader, view>>

DashNext ==
    \/ \E active \in BOOLEAN : Render(active)
    \/ \E cal_sess \in PercentValues, cal_week \in PercentValues :
          Calibrate(cal_sess, cal_week)

SpecDash == DashInit /\ [][DashNext]_vars

-----------------------------------------------------------------------------
(* Properties of the dashboard (under SpecDash).                           *)

\* what json.load makes of the file, and what the reader returns now
Loaded == json_load(disk.bytes)
Returned == read_collector_summary(disk, clock)

\* the file holds one JSON object whose timestamp is an ISO string
HasStamp ==
    /\ disk.exists /\ Loaded.st = "ok" /\ Loaded.doc.json = "object"
    /\ Get(Loaded.doc.obj, "timestamp", RawNull).kind = "iso"

\* now - timestamp, in seconds
Age == clock - iso_to_local(Loaded.doc.obj.timestamp)

\* the script ran with the collector daemon running and did not fail
Shown == view.st = "ok" /\ view.screen = "usage"

SnapshotAbsent == ~disk.exists \/ Loaded.st # "ok"
SnapshotStale == Returned.st = "ok" /\ Returned.some /\ Returned.flagged /\ Returned.stale
SnapshotLacksFields ==
    /\ disk.exists /\ Loaded.st = "ok" /\ Loaded.doc.json = "object"
    /\ \/ \E k \in {"timestamp", "session", "weekly"} : k \notin DOMAIN Loaded.doc.obj
       \/ Falsy(Get(Loaded.doc.obj, "timestamp", RawNull))

\* C19: with the dashboard active and the snapshot absent, stale or lacking
\* fields, the script does not fail, the freshness line is not blank and
\* does not read "Updated ... min ago".
C19_ExplicitNoDataOrStale ==
    (view.st # "notrun" /\ view.screen # "stopped"
        /\ (SnapshotAbsent \/ SnapshotStale \/ SnapshotLacksFields)) =>
        /\ view.st = "ok"
        /\ view.fresh_text # ""
        /\ view.fresh_text # "Updated {m} min ago"

\* C20: the saved caps and the caps the usage section divides by are
\* greater than zero.
C20_CapsPositive ==
    /\ caps.has => caps.session > 0 /\ caps.weekly > 0
    /\ Shown => view.sess_cap > 0 /\ view.week_cap > 0

-----------------------------------------------------------------------------
(* Properties of the collector's snapshots as the dashboard shows them     *)
(* (under SpecCollect).                                                    *)

ResetFields ==
    {"session_resets_at", "session_oldest", "session_newest", "weekly_resets_at"}

\* the usage section for the snapshot sm, read at the time of the clock
ShownFor(sm) ==
    usage_view(summary_flags([st |-> "ok", doc |-> ObjectDoc(sm), whole |-> TRUE], clock),
               [has |-> FALSE, session |-> 0, weekly |-> 0], cfg, clock)

-----------------------------------------------------------------------------
(* The collector writing latest_summary.json while the dashboard reads it. *)
(* Each step is one system call: open(..., "w") truncates the file, the    *)
(* snapshot's text is written in one piece when the file is closed (it is  *)
(* shorter than the buffer), and f.read() reads to the end of the file,    *)
(* then once more until nothing is returned.                               *)

\* the snapshot a pass at t writes, from the local path or the Admin API
PassSnapshot(t, source) ==
    IF source = "local"
    THEN SnapshotObj(RawIsoNaive(t), Bucket(1, 0, 0, 0), Bucket(10000, 10000, 10000, 10000))
    ELSE Summary(RawIsoNaive(t), "admin_api",
                 [session |-> ZeroBucket, daily |-> ZeroBucket, weekly |-> ZeroBucket],
                 RawNull, RawNull, RawNull, RawNull, 0)

RaceInit ==
    /\ E = <<>> /\ now = ParseNow /\ now2 = ParseNow
    /\ cfg = Config("absent", RawNull, RawNull, <<>>)
    /\ out = NotRun
    /\ projects = NoProjects /\ parsed = NotRun
    /\ CollectorIdle
    /\ clock = ParseNow
    /\ CostIdle /\ StatsIdle /\ UiIdle
    /\ disk = [exists |-> FALSE, bytes |-> <<>>]
    /\ writer = [pc |-> "idle", doc |-> GarbageDoc]
    /\ reader = [pc |-> "idle", buf |-> <<>>, result |-> NoneResult]
    /\ caps = [has |-> FALSE, session |-> 0, weekly |-> 0]
    /\ view = NotRun

raceFrame == <<aggVars, parseVars, uiVars, apiKey, summaryFile, mode, pc, errorsLogged, lastPass,
               stdout, bucket, extra, priced, stats, caps, view>>

\* collector.py line 275: open(SUMMARY_FILE, "w") creates or empties the file
WriterOpen ==
    /\ writer.pc = "idle" /\ passes < MaxPasses
    /\ \E source \in {"local", "admin_api"} :
          writer' = [pc |-> "opened", doc |-> ObjectDoc(PassSnapshot(clock, source))]
    /\ disk' = [exists |-> TRUE, bytes |-> <<>>]
    /\ passes' = passes + 1
    /\ UNCHANGED <<raceFrame, clock, historyLog, reader>>

\* collector.py lines 275-276: json.dump and the close that writes the text
WriterClose ==
    /\ writer.pc = "opened"
    /\ disk' = [exists |-> TRUE, bytes |-> text(writer.doc)]
    /\ writer' = [writer EXCEPT !.pc = "written"]
    /\ UNCHANGED <<raceFrame, clock, historyLog, passes, reader>>

\* collector.py lines 277-278 and the sleep of the daemon
WriterAppend ==
    /\ writer.pc = "written"
    /\ historyLog' = Append(historyLog, writer.doc.obj)
    /\ writer' = [writer EXCEPT !.pc = "idle"]
    /\ clock' = clock + INTERVAL_SECS
    /\ UNCHANGED <<raceFrame, disk, passes, reader>>

\* app.py line 235: os.path.exists(COLLECTOR_SUMMARY), in the first run of
\* the script and in each later one
ReaderExists ==
    /\ reader.pc \in {"idle", "done"}
    /\ reader' = IF disk.exists
                 THEN [pc |-> "exists", buf |-> <<>>, result |-> NoneResult]
                 ELSE [pc |-> "done", buf |-> <<>>, result |-> NoneResult]
    /\ UNCHANGED <<raceFrame, clock, historyLog, passes, disk, writer>>

\* app.py line 238: open(COLLECTOR_SUMMARY, "r"); the file is never removed
ReaderOpen ==
    /\ reader.pc = "exists"
    /\ reader' = [reader EXCEPT !.pc = "open"]
    /\ UNCHANGED <<raceFrame, clock, historyLog, passes, disk, writer>>

\* app.py line 239, f.read(): one read from the reader's offset to the end
\* of the file as it is now; a read that returns nothing ends f.read()
ReaderRead ==
    /\ reader.pc = "open"
    /\ reader' = IF Len(disk.bytes) > Len(reader.buf)
                 THEN [reader EXCEPT
                          !.buf = @ \o SubSeq(disk.bytes, Len(@) + 1, Len(disk.bytes))]
                 ELSE [reader EXCEPT !.pc = "loaded"]
    /\ UNCHANGED <<raceFrame, clock, historyLog, passes, disk, writer>>

\* app.py lines 239-253: json.load parses what was read; the flags; return
ReaderReturn ==
    /\ reader.pc = "loaded"
    /\ \E j \in {json_load(reader.buf)} :
          reader' = [reader EXCEPT
                        !.pc = "done",
                        !.result = IF j.st # "ok" THEN NoneResult
                                   ELSE summary_flags(j, clock)]
    /\ UNCHANGED <<raceFrame, clock, historyLog, passes, disk, writer>>

RaceNext ==
    \/ WriterOpen \/ WriterClose \/ WriterAppend
    \/ ReaderExists \/ ReaderOpen \/ ReaderRead \/ ReaderReturn

SpecRace == RaceInit /\ [][RaceNext]_vars

-----------------------------------------------------------------------------
(* Properties of the concurrent read (under SpecRace).                     *)

\* the snapshots the passes have written so far
WrittenSnapshots ==
    { historyLog[i] : i \in 1..Len(historyLog) }
        \cup (IF writer.pc = "written" THEN {writer.doc.obj} ELSE {})

\* C14: whatever the interleaving of the writer's and the reader's steps,
\* read_collector_summary does not raise and returns None or the whole
\* snapshot of one pass.
C14_NoneOrWholeSnapshot ==
    reader.pc = "done" =>
        /\ reader.result.st = "ok"
        /\ reader.result.some =>
              /\ reader.result.whole
              /\ reader.result.data \in WrittenSnapshots

\* the reader read all of one snapshot, the writer then replaced the file
\* by a longer one, and the reader read the rest of that: None is returned
C14_Witness ==
    /\ reader.pc = "done"
    /\ Len(reader.buf) = 3
    /\ reader.buf[1].doc # reader.buf[3].doc
    /\ ~reader.result.some

\* a read that took place while the file was being replaced and returned
\* the new snapshot
C14_WitnessWhole ==
    /\ reader.pc = "done"
    /\ reader.result.some /\ reader.result.whole
    /\ Len(historyLog) = 1 /\ passes = 2
    /\ reader.result.data \notin { historyLog[i] : i \in 1..Len(historyLog) }

-----------------------------------------------------------------------------
(* The dashboard's controls (app.py): Start and Stop Dashboard, the        *)
(* session buttons and Calibrate, pressed in the pages of one or more      *)
(* browser sessions.  Streamlit runs the script once per session and       *)
(* event, each run in a thread of its own; a step below is one call that   *)
(* reads or changes what the runs share: the process table and             *)
(* session_data.json.                                                      *)

MaxPages == 2        \* the browser sessions with the dashboard open

Pages == 1..MaxPages

SetKey(d, k, v) == [x \in DOMAIN d \cup {k} |-> IF x = k THEN v ELSE d[x]]

SavedCaps == [session |-> 4, weekly |-> 6]
NewCaps == [session |-> 2, weekly |-> 3]

\* session_data.json: st is "absent", "empty" (opened for writing, nothing
\* written yet), "garbage" (no JSON) or "object"; d is the dict last
\* written in full
DataFile(st, d) == [st |-> st, d |-> d]

DataFiles ==
    { DataFile("absent", <<>>), DataFile("garbage", <<>>),
      DataFile("object", [usage_caps |-> SavedCaps]),
      DataFile("object", [session_start |-> RawIsoNaive(ParseNow - 60)]),
      DataFile("object", [session_start |-> RawIsoNaive(ParseNow - 60),
                          usage_caps |-> SavedCaps]) }

\* load_data() (lines 25-32)
load_data(f) == IF f.st = "object" THEN f.d ELSE <<>>

\* the buttons a run of the script renders (lines 499-606, 621)
Offered(shown) ==
    CASE shown = "stopped" -> {"start"}
      [] shown = "active" -> {"stop", "new_session", "manual", "clear", "calibrate"}
      [] OTHER -> {}

\* what a button's handler does to the dict that load_data returned, at
\* the clock reading n
handler_dict(click, d, n) ==
    CASE click \in {"start", "new_session"} -> SetKey(d, "session_start", RawIsoNaive(n))
      [] click = "manual" -> SetKey(d, "session_start", RawIsoNaive(n - HOUR_SECS))
      [] click \in {"stop", "clear"} -> RemoveKey(d, "session_start")
      [] click = "calibrate" -> SetKey(d, "usage_caps", NewCaps)
      [] OTHER -> d

IdlePage == [pc |-> "idle", shown |-> "none", active |-> FALSE, clicked |-> "none", d |-> <<>>]

CtlInit ==
    /\ E = <<>> /\ now = ParseNow /\ now2 = ParseNow
    /\ cfg = Config("absent", RawNull, RawNull, <<>>)
    /\ out = NotRun
    /\ projects = NoProjects /\ parsed = NotRun
    /\ CollectorIdle
    /\ clock = ParseNow
    /\ CostIdle /\ StatsIdle /\ DashIdle
    /\ daemons \in {0, 1}
    /\ pages = [s \in Pages |-> IdlePage]
    /\ dataFile \in DataFiles
    /\ plan = NotRun

ctlFrame == <<aggVars, parseVars, collectVars, appVars, plan>>

\* A run of the script starts, by itself or by the press of a button that
\* the page shows.  Line 322: dashboard_active = get_collector_pid() is not
\* None.  A button that this run does not render again is not pressed.
Rerun(s, click) ==
    /\ pages[s].pc = "idle"
    /\ click \in Offered(pages[s].shown) \cup {"none"}
    /\ \E act \in {daemons > 0} :
         \E pressed \in {click \in Offered(IF act THEN "active" ELSE "stopped")} :
            pages' = [pages EXCEPT ![s] =
                        [pc |-> IF ~pressed THEN "render"
                                ELSE IF click = "start" THEN "start"
                                ELSE IF click = "stop" THEN "stop"
                                ELSE "load",
                         shown |-> "none", active |-> act,
                         clicked |-> IF pressed THEN click ELSE "none",
                         d |-> <<>>]]
    /\ UNCHANGED <<ctlFrame, daemons, dataFile>>

\* line 540: start_collector() (lines 179-190) starts one more daemon
StartCollector(s) ==
    /\ pages[s].pc = "start"
    /\ daemons' = daemons + 1
    /\ pages' = [pages EXCEPT ![s].pc = "load"]
    /\ UNCHANGED <<ctlFrame, dataFile>>

\* line 520: stop_collector() (lines 193-225) ends every daemon
StopCollector(s) ==
    /\ pages[s].pc = "stop"
    /\ daemons' = 0
    /\ pages' = [pages EXCEPT ![s].pc = "load"]
    /\ UNCHANGED <<ctlFrame, dataFile>>

\* d = load_data() and the handler's change of d (lines 523-524, 542-543,
\* 555-556, 594-595, 603-604, 631-632)
LoadData(s) ==
    /\ pages[s].pc = "load"
    /\ pages' = [pages EXCEPT ![s].pc = "save",
                              ![s].d = handler_dict(pages[s].clicked, load_data(dataFile),
                                                    clock)]
    /\ UNCHANGED <<ctlFrame, daemons, dataFile>>

\* save_data(d), line 36: open(DATA_FILE, "w") empties the file
SaveOpen(s) ==
    /\ pages[s].pc = "save"
    /\ dataFile' = [dataFile EXCEPT !.st = "empty"]
    /\ pages' = [pages EXCEPT ![s].pc = "write"]
    /\ UNCHANGED <<ctlFrame, daemons>>

\* save_data(d), lines 36-37: the text is written from offset 0 when the
\* file is closed.  Over a text that another run wrote in between it leaves
\* d's text, or d's text and the end of a longer one, which is no JSON.
\* Then st.rerun().
SaveWrite(s) ==
    /\ pages[s].pc = "write"
    /\ \/ dataFile' = DataFile("object", pages[s].d)
       \/ /\ dataFile.st # "empty"
          /\ dataFile' = DataFile("garbage", pages[s].d)
    /\ pages' = [pages EXCEPT ![s].pc = "idle"]
    /\ UNCHANGED <<ctlFrame, daemons>>

\* the run reaches the end of the script: the page shows the Start button
\* or the buttons of the active dashboard
RenderEnd(s) ==
    /\ pages[s].pc = "render"
    /\ pages' = [pages EXCEPT ![s].pc = "idle",
                              ![s].shown = IF pages[s].active THEN "active" ELSE "stopped"]
    /\ UNCHANGED <<ctlFrame, daemons, dataFile>>

CtlNext ==
    \E s \in Pages :
        \/ \E click \in {"none", "start", "stop", "new_session", "manual", "clear",
                         "calibrate"} : Rerun(s, click)
        \/ StartCollector(s) \/ StopCollector(s)
        \/ LoadData(s) \/ SaveOpen(s) \/ SaveWrite(s)
        \/ RenderEnd(s)

SpecCtl == CtlInit /\ [][CtlNext]_vars

-----------------------------------------------------------------------------
(* Properties of the controls (under SpecCtl).                             *)

\* C23: whatever the order of the steps of the pages' runs, at most one
\* collector daemon is running, and none when a run has passed
\* stop_collector and no run has started one since.
C23_AtMostOneDaemon == daemons <= 1

NoValue == [absent |-> TRUE]

\* C24: when a handler begins to overwrite session_data.json, the dict it
\* writes has the usage_caps that the file holds (Calibrate: the
\* session_start that the file holds), whatever runs of other pages did
\* between its load_data and its save_data.
C24_OnlyOwnKey ==
    [][\A s \in Pages :
          (pages[s].pc = "save" /\ pages'[s].pc = "write") =>
              IF pages[s].clicked = "calibrate"
              THEN Get(pages[s].d, "session_start", NoValue)
                       = Get(dataFile.d, "session_start", NoValue)
              ELSE Get(pages[s].d, "usage_caps", NoValue)
                       = Get(dataFile.d, "usage_caps", NoValue)]_vars

-----------------------------------------------------------------------------
(* The session plan (app.py): compute_all_sessions.                        *)

WINDOW_HOURS == 5

\* session_start.replace(hour=23, minute=59, second=59, microsecond=0)
today_end(session_start) == start_of_day(session_start) + DAY_SECS - 1

\* the while loop of compute_all_sessions (lines 294-297)
RECURSIVE sessions_from(_, _)
sessions_from(block, day_end) ==
    IF block < day_end
    THEN << [start |-> block, end |-> Min(block + WINDOW_HOURS * HOUR_SECS, day_end)] >>
             \o sessions_from(block + WINDOW_HOURS * HOUR_SECS, day_end)
    ELSE <<>>

\* compute_all_sessions(session_start) (lines 290-298)
compute_all_sessions(session_start) ==
    sessions_from(session_start, today_end(session_start))

\* Start times: every quarter of an hour of the first and of the ninth day,
\* and the seconds around 19:00 and the end of the day.
StartValues ==
    { d * DAY_SECS + q * (HOUR_SECS \div 4) : d \in {0, 8}, q \in 0..95 }
        \cup { 8 * DAY_SECS + 19 * HOUR_SECS + x : x \in {-1, 1} }
        \cup { 9 * DAY_SECS - x : x \in 1..3 }

PlanInit ==
    /\ E = <<>> /\ now = ParseNow /\ now2 = ParseNow
    /\ cfg = Config("absent", RawNull, RawNull, <<>>)
    /\ out = NotRun
    /\ projects = NoProjects /\ parsed = NotRun
    /\ CollectorIdle
    /\ clock = ParseNow
    /\ AppIdle

\* line 854: all_sessions = compute_all_sessions(session_start)
SessionPlan ==
    /\ \E session_start \in StartValues :
          plan' = [st |-> "ok", session_start |-> session_start,
                   sessions |-> compute_all_sessions(session_start)]
    /\ UNCHANGED <<aggVars, parseVars, collectVars, appVars, daemons, pages, dataFile>>

PlanNext == SessionPlan

SpecPlan == PlanInit /\ [][PlanNext]_vars

-----------------------------------------------------------------------------
(* Properties of compute_all_sessions (under SpecPlan).                    *)

\* C26: the list is not empty, its first block starts at session_start,
\* each later block starts where the one before it ends, every block but
\* the last is 5 hours long, no block is empty or longer than 5 hours, and
\* the last block ends at 23:59:59 of session_start's day.
C26_PlanPartitionsDay ==
    plan.st = "ok" =>
        LET b == plan.sessions
        IN  /\ Len(b) >= 1
            /\ b[1].start = plan.session_start
            /\ \A i \in 2..Len(b) : b[i].start = b[i - 1].end
            /\ \A i \in 1..(Len(b) - 1) : b[i].end - b[i].start = 5 * 3600
            /\ \A i \in 1..Len(b) :
                  b[i].end > b[i].start /\ b[i].end - b[i].start <= 5 * 3600
            /\ b[Len(b)].end
                  = (plan.session_start \div 86400) * 86400 + 23 * 3600 + 59 * 60 + 59

====
